---------------------------- MODULE Spec2Model ----------------------------
(***************************************************************************)
(* Secret Toaster rules core: the legacy round executor                    *)
(* (runLegacyRoundExecutor, packages/domain/src/parity.ts lines 129-229),  *)
(* and, further down, the battle resolver and the order validator, each    *)
(* with a specification of its own.                                        *)
(*                                                                         *)
(* The executor is a synchronous function.  It is modelled one statement   *)
(* group at a time:                                                        *)
(*   Invoke  the host builds a RoundExecutorInput (player objects and      *)
(*           their orders arrays live in a small heap, so that aliasing    *)
(*           between the input and the returned players is observable);    *)
(*   Enter   lines 177-189: clonePlayers, events = [], the readiness gate; *)
(*   Draw    lines 193-210: one iteration of the scheduling loop;          *)
(*   Finish  lines 212-228: ready reset, round_advanced, the result;       *)
(*   Recall  the host calls the function again with the same input object  *)
(*           and a random source that returns the same values again;       *)
(*   Return  the host takes the returned round as the game's round.        *)
(***************************************************************************)
EXTENDS Integers, Sequences, FiniteSets

VARIABLES
    round,    \* the game's round counter, kept by the host between calls
    pc,       \* "idle", "called", "loop" or "returned"
    input,    \* the RoundExecutorInput: [round, players (object references)]
    objs,     \* heap of RoundPlayerState objects: [nickname, ready, orders (array reference)]
    arrs,     \* heap of orders arrays: each a sequence of LegacyOrderInput
    players,  \* the executor's local `players` (object references)
    events,   \* the executor's local `events`
    tape,     \* the values random() has returned in this call (first MaxTape recorded)
    draws,    \* the number of random() calls of this call; above MaxTape only its parity is kept
    result,   \* the RoundExecutorResult, once returned
    prior     \* the first call's outcome while the host repeats the call

vars == <<round, pc, input, objs, arrs, players, events, tape, draws, result, prior>>

\* The host's knights (ValidationKnightState), which live beside the
\* executor's input: a RoundPlayerState has no knights.
VARIABLES knights

\* The battle resolver (resolveLegacyBattle).
VARIABLES
    bpc,             \* "off", "called", "loop" or "done"
    battle,          \* the LegacyBattleInput
    attackerBonus,   \* the resolver's locals
    defenderBonus,
    attackerTroops,
    defenderTroops,
    rounds,
    rolled,          \* the values rollDie() has returned, in call order
    outcome          \* the LegacyBattleResult, once returned

bvars == <<bpc, battle, attackerBonus, defenderBonus, attackerTroops,
           defenderTroops, rounds, rolled, outcome>>

\* The order validator (validateLegacyOrder).
VARIABLES
    vpc,             \* "off", "called" or "returned"
    request,         \* [order, state]: the two arguments of the call
    verdict          \* the ValidationResult, once returned

ovars == <<vpc, request, verdict>>

\* The board builder (buildLegacyBoardSpec).
VARIABLES
    hpc,             \* "off", "called", "loop", "built" or "returned"
    hexes,           \* the builder's local `hexes`, by index
    cursor,          \* the index of the hex the for loop visits next
    board            \* the LegacyBoardSpec, once returned

hvars == <<hpc, hexes, cursor, board>>

\* The game page's planned orders (issuedOrdersByNumber).
VARIABLES
    currentRound,    \* the game's round as the page has it
    gameEvents,      \* the page's gameEvents state, newest first
    issuedOrders     \* the memoized Map: entries [key, value] in insertion order

pvars == <<currentRound, gameEvents, issuedOrders>>

\* A game: a player's orders from their submission to their execution.
VARIABLES
    gamePhase,       \* "off", "planning" or "executing"
    gameKnight,      \* the player's knight in the game state
    gameOrders,      \* the player's queued orders
    gameIssued       \* the orders issued, each with its actor's alive flag then

gvars == <<gamePhase, gameKnight, gameOrders, gameIssued>>

\* The planner's projection of orders on the board (applyProjectedOrderMove).
VARIABLES
    projecting,      \* whether a projection is being computed
    projected,       \* the Map of ProjectedHexState, by hex id
    projectedOrder,  \* the order and player of the last call, once called
    projectedCalls   \* the number of calls

jvars == <<projecting, projected, projectedOrder, projectedCalls>>

\* One round of a battle (resolveLegacyBattleStep).
VARIABLES
    stepInput,       \* the argument of the call
    stepWinner       \* the side returned, once returned

svars == <<stepInput, stepWinner>>

allvars == <<vars, knights, bvars, ovars, hvars, pvars, gvars, jvars, svars>>

---------------------------------------------------------------------------
(* Bounds of the model *)

MaxPlayers == 2     \* players in an input
MaxOrders == 3      \* queued orders in an input, over all players
MaxTape == 4        \* recorded random values per call
MaxRound == 2       \* the host stops calling at this round

(* Program constants *)

LEGACY_MAX_ORDERS_PER_PLAYER == 3

---------------------------------------------------------------------------
(* Values *)

Nick == <<"Alice", "Bob", "Carol", "Dave">>

None == [none |-> TRUE]

\* An optional field (alive?, projectedPositions?) or a nullable one
\* (ownerNickname: string | null): present with a value, or absent.
Some(value) == <<value>>
Absent == <<>>

\* The type of a queued order: a player's third order is an attack, the
\* others are moves.
OrderType(orderNumber) ==
    IF orderNumber = LEGACY_MAX_ORDERS_PER_PLAYER THEN "attack" ELSE "move"

\* order(owner, orderNumber) of the executor's test: the executor never reads
\* an order's fields, so only those that identify it, and its type, are kept.
Order(owner, orderNumber) ==
    [orderNumber |-> orderNumber, ownerNickname |-> owner,
     type |-> OrderType(orderNumber)]

OrderNumbers == 1..LEGACY_MAX_ORDERS_PER_PLAYER

\* The knight of createState(): at hex 23, with planned moves to hex 24.
SirAlice0 ==
    [name |-> "Sir Alice 0", ownerNickname |-> "Alice", location |-> 23,
     projectedPositions |-> Some(<<23, 24, 24>>), alive |-> Some(TRUE)]

CreateStateKnights == <<SirAlice0>>

RECURSIVE SeqsUpTo(_, _)
SeqsUpTo(S, n) ==
    IF n = 0 THEN {<<>>}
    ELSE LET shorter == SeqsUpTo(S, n - 1)
         IN  shorter \cup {Append(s, x) : s \in shorter, x \in S}

Distinct(s) == \A i, j \in DOMAIN s : i # j => s[i] # s[j]

\* The orders arrays a player may hold: up to three orders with distinct
\* order numbers, in any array order (the executor's input type does not
\* constrain the order of the array).
Queues(owner) ==
    {[i \in DOMAIN s |-> Order(owner, s[i])] :
        s \in {t \in SeqsUpTo(OrderNumbers, LEGACY_MAX_ORDERS_PER_PLAYER) : Distinct(t)}}

\* A random source returns a number in [0, 1): modelled as a fraction num/den.
\* 0.0, 0.1 and 0.8 are the values the executor's test script returns.
RandVals ==
    {[num |-> 0, den |-> 10], [num |-> 1, den |-> 10], [num |-> 8, den |-> 10]}

RECURSIVE SumLen(_, _)
SumLen(f, n) == IF n = 0 THEN 0 ELSE Len(f[n].orders) + SumLen(f, n - 1)

\* The player lists of an input, by value.
PlayerLists ==
    UNION {
        {f \in [1..n -> UNION {[nickname : {Nick[i]}, ready : BOOLEAN, orders : Queues(Nick[i])]
                                : i \in 1..n}] :
            /\ \A i \in 1..n : f[i].nickname = Nick[i]
            /\ SumLen(f, n) <= MaxOrders}
        : n \in 0..MaxPlayers}

---------------------------------------------------------------------------
(* Heap access *)

\* The value of the player objects a list of references names.
PlayerValues(refs) ==
    [i \in DOMAIN refs |->
        [nickname |-> objs[refs[i]].nickname,
         ready    |-> objs[refs[i]].ready,
         orders   |-> arrs[objs[refs[i]].orders]]]

OrdersOf(ref) == arrs[objs[ref].orders]

---------------------------------------------------------------------------
(* The executor *)

\* A shallow clone: new player objects that share the input's orders arrays.
ClonePlayersShallow(refs) ==
    LET n == Len(refs)
        no == Len(objs)
    IN  [objs |-> objs \o [i \in 1..n |-> objs[refs[i]]],
         arrs |-> arrs,
         players |-> [i \in 1..n |-> no + i]]

\* clonePlayers: a new object per player, with a new orders array holding
\* the same order objects.
ClonePlayers(refs) ==
    LET n == Len(refs)
        no == Len(objs)
        na == Len(arrs)
    IN  [objs |-> objs \o [i \in 1..n |->
                      [nickname |-> objs[refs[i]].nickname,
                       ready    |-> objs[refs[i]].ready,
                       orders   |-> na + i]],
         arrs |-> arrs \o [i \in 1..n |-> arrs[objs[refs[i]].orders]],
         players |-> [i \in 1..n |-> no + i]]

\* players.some instead of players.every
AllReadySome(refs) == \E i \in DOMAIN refs : objs[refs[i]].ready

\* players.every((player) => player.ready)
AllReady(refs) == \A i \in DOMAIN refs : objs[refs[i]].ready

\* Only the first player's queue is looked at.
HasPendingOrdersFirst == players # <<>> /\ Len(OrdersOf(players[1])) > 0

\* players.some((player) => player.orders.length > 0)
HasPendingOrders == \E i \in DOMAIN players : Len(OrdersOf(players[i])) > 0

\* Math.round instead of Math.floor
DrawIndexRound(r, n) == (2 * r.num * n + r.den) \div (2 * r.den)

\* Math.floor(random()) * players.length
DrawIndexOfFloor(r, n) == (r.num \div r.den) * n

\* Math.floor(random() * players.length), as a 0-based index
DrawIndex(r, n) == (r.num * n) \div r.den

\* The executor ignores input.random and always calls Math.random.
NextRandomDefault == RandVals

\* What the call of random() may return: the source the input carries.  A
\* repeated call is given a source that returns the first call's values again.
NextRandom ==
    IF prior # None /\ draws < Len(prior.tape)
    THEN {prior.tape[draws + 1]}
    ELSE RandVals

\* The round is returned as it came.
NextRoundSame(r) == r

\* const nextRound = input.round + 1
NextRound(r) == r + 1

\* player.orders.pop(): the last element, and the array without it
Popped(q) == [order |-> q[Len(q)], rest |-> SubSeq(q, 1, Len(q) - 1)]

\* player.orders.shift(): the first element, and the array without it
Shifted(q) == [order |-> Head(q), rest |-> Tail(q)]

\* events.unshift(e)
\* Values a random source may return for a list of n players: those of
\* RandVals and the least value of each n-th of [0, 1).
UnitValues(n) == RandVals \cup {[num |-> k, den |-> n] : k \in 0..(n - 1)}

\* The while loop of lines 193-210 as a function of the players' queues:
\* the sequences of issued orders it ends with, over the values random may
\* return.  A draw that issues nothing leaves the queues as they are.
RECURSIVE IssueRuns(_)
IssueRuns(queues) ==
    IF \A i \in DOMAIN queues : Len(queues[i].orders) = 0 THEN {<<>>}
    ELSE UNION {
        LET index == DrawIndex(r, Len(queues))
        IN  IF index + 1 \notin DOMAIN queues \/ Len(queues[index + 1].orders) = 0
            THEN {}
            ELSE LET shift == Shifted(queues[index + 1].orders)
                 IN  {<<[player |-> queues[index + 1].nickname, order |-> shift.order]>>
                        \o run :
                      run \in IssueRuns([queues EXCEPT ![index + 1].orders = shift.rest])}
        : r \in UnitValues(Len(queues))}

Unshift(list, e) == <<e>> \o list

\* events.push(e)
Push(list, e) == Append(list, e)

\* The flag is left as it is.
ResetReadyKept(o) == o

\* player.ready = false
ResetReady(o) == [o EXCEPT !.ready = FALSE]

IssuedOrderEvent(r, nickname, order) ==
    [kind |-> "order_issued", round |-> r, player |-> nickname, order |-> order]

RoundAdvancedBackwards(from, to) ==
    [kind |-> "round_advanced", fromRound |-> to, toRound |-> from]

RoundAdvancedEvent(from, to) ==
    [kind |-> "round_advanced", fromRound |-> from, toRound |-> to]

\* The random source has been called once more and returned r.  The counter
\* is exact up to MaxTape; beyond it, it alternates between MaxTape + 1 and
\* MaxTape + 2, both meaning "more than MaxTape".
Record(r) ==
    /\ tape' = IF Len(tape) < MaxTape THEN Append(tape, r) ELSE tape
    /\ draws' = IF draws <= MaxTape THEN draws + 1
                ELSE IF draws = MaxTape + 1 THEN MaxTape + 2 ELSE MaxTape + 1

---------------------------------------------------------------------------
(* Actions *)

Init ==
    /\ round = 0
    /\ pc = "idle"
    /\ input = None
    /\ objs = <<>>
    /\ arrs = <<>>
    /\ players = <<>>
    /\ events = <<>>
    /\ tape = <<>>
    /\ draws = 0
    /\ result = None
    /\ prior = None
    /\ knights = CreateStateKnights

\* The host calls the executor with the game's round and a list of players.
Invoke ==
    /\ pc = "idle"
    /\ round < MaxRound
    /\ \E f \in PlayerLists :
        /\ objs' = [i \in DOMAIN f |->
                        [nickname |-> f[i].nickname, ready |-> f[i].ready, orders |-> i]]
        /\ arrs' = [i \in DOMAIN f |-> f[i].orders]
        /\ input' = [round |-> round, players |-> [i \in DOMAIN f |-> i]]
    /\ pc' = "called"
    /\ UNCHANGED <<round, players, events, tape, draws, result, prior>>
    /\ UNCHANGED <<knights, bvars, ovars, hvars, pvars, gvars, jvars, svars>>

\* Lines 177-189: clone, then the readiness gate.
Enter ==
    /\ pc = "called"
    /\ LET c == ClonePlayers(input.players)
       IN  /\ objs' = c.objs
           /\ arrs' = c.arrs
           /\ players' = c.players
           /\ events' = <<>>
           /\ IF AllReady(input.players)
              THEN /\ pc' = "loop"
                   /\ UNCHANGED result
              ELSE /\ pc' = "returned"
                   /\ result' = [executed |-> FALSE, round |-> input.round,
                                 players |-> c.players, events |-> <<>>]
    /\ UNCHANGED <<round, input, tape, draws, prior>>
    /\ UNCHANGED <<knights, bvars, ovars, hvars, pvars, gvars, jvars, svars>>

\* Lines 193-210: one iteration of the while loop.  `!player` is the index
\* falling outside the list; `if (!order) continue` cannot be taken, since a
\* non-empty array of order objects shifts an object.
Draw ==
    /\ pc = "loop"
    /\ HasPendingOrders
    /\ \E r \in NextRandom :
        LET index == DrawIndex(r, Len(players))
        IN  /\ Record(r)
            /\ IF index + 1 \notin DOMAIN players
                  \/ Len(OrdersOf(players[index + 1])) = 0
               THEN UNCHANGED <<arrs, events>>
               ELSE LET player == objs[players[index + 1]]
                        shift == Shifted(arrs[player.orders])
                    IN  /\ arrs' = [arrs EXCEPT ![player.orders] = shift.rest]
                        /\ events' = Push(events,
                              IssuedOrderEvent(input.round, player.nickname, shift.order))
    /\ UNCHANGED <<round, pc, input, objs, players, result, prior>>
    /\ UNCHANGED <<knights, bvars, ovars, hvars, pvars, gvars, jvars, svars>>

\* Lines 212-228: ready reset, round_advanced, the result.
Finish ==
    /\ pc = "loop"
    /\ ~HasPendingOrders
    /\ LET nextRound == NextRound(input.round)
           allEvents == Push(events, RoundAdvancedEvent(input.round, nextRound))
       IN  /\ objs' = [o \in DOMAIN objs |->
                          IF \E i \in DOMAIN players : players[i] = o
                          THEN ResetReady(objs[o])
                          ELSE objs[o]]
           /\ events' = allEvents
           /\ result' = [executed |-> TRUE, round |-> nextRound,
                         players |-> players, events |-> allEvents]
    /\ pc' = "returned"
    /\ UNCHANGED <<round, input, arrs, players, tape, draws, prior>>
    /\ UNCHANGED <<knights, bvars, ovars, hvars, pvars, gvars, jvars, svars>>

\* The host calls again with the same input object and a random source that
\* returns the values of the first call again.
Recall ==
    /\ pc = "returned"
    /\ prior = None
    /\ draws <= MaxTape
    /\ prior' = [executed |-> result.executed,
                 round    |-> result.round,
                 players  |-> PlayerValues(result.players),
                 events   |-> result.events,
                 tape     |-> tape,
                 input    |-> PlayerValues(input.players)]
    /\ objs' = SubSeq(objs, 1, Len(input.players))
    /\ arrs' = SubSeq(arrs, 1, Len(input.players))
    /\ players' = <<>>
    /\ events' = <<>>
    /\ tape' = <<>>
    /\ draws' = 0
    /\ result' = None
    /\ pc' = "called"
    /\ UNCHANGED <<round, input>>
    /\ UNCHANGED <<knights, bvars, ovars, hvars, pvars, gvars, jvars, svars>>

\* The host stores the returned round.
Return ==
    /\ pc = "returned"
    /\ round' = result.round
    /\ pc' = "idle"
    /\ input' = None
    /\ objs' = <<>>
    /\ arrs' = <<>>
    /\ players' = <<>>
    /\ events' = <<>>
    /\ tape' = <<>>
    /\ draws' = 0
    /\ result' = None
    /\ prior' = None
    /\ UNCHANGED <<knights, bvars, ovars, hvars, pvars, gvars, jvars, svars>>

---------------------------------------------------------------------------
(* The battle resolver: resolveLegacyBattle,                               *)
(* packages/domain/src/battle-resolver.ts.                                 *)
(*   BattleEnter   lines 46-54: bonuses, clamped troop counts, rounds = []; *)
(*   BattleRound   lines 56-80: one iteration of the battle loop;           *)
(*   BattleFinish  lines 82-100: the winner and the result.                 *)

MaxTroops == 2      \* largest troop count of a battle input

\* A die source returns an integer in 1..6; the lowest face, its neighbour
\* and the highest face are drawn.
DieFaces == {1, 2, 6}

AllianceSizes == {1, 3}

\* Troop counts of an input: numbers num/den, among them a negative one and
\* one that is not an integer.
TroopInputs ==
    {[num |-> n, den |-> 1] : n \in (-1)..MaxTroops} \cup {[num |-> 3, den |-> 2]}

KnightLists ==
    {[attacker |-> <<"Sir Alice 0">>, defender |-> <<"Sir Bob 0", "Sir Bob 1">>],
     [attacker |-> <<>>, defender |-> <<"Sir Bob 0">>]}

BattleInputs ==
    {[attackerNickname |-> "Alice",
      defenderNickname |-> "Bob",
      attackerTroops |-> a,
      defenderTroops |-> d,
      attackerAllianceMembers |-> am,
      defenderAllianceMembers |-> dm,
      attackerKnightsOnHex |-> k.attacker,
      defenderKnightsOnHex |-> k.defender] :
        a \in TroopInputs, d \in TroopInputs,
        am \in AllianceSizes, dm \in AllianceSizes, k \in KnightLists}

Max(a, b) == IF a >= b THEN a ELSE b

BonusLessOne(allianceMemberCount) == allianceMemberCount - 1

\* calculateLegacyBattleBonus
CalculateLegacyBattleBonus(allianceMemberCount) == allianceMemberCount

\* clampTroops: Math.max(0, Math.floor(value))
ClampTroops(value) == Max(0, value.num \div value.den)

StopsEarly(a, d) == a > 1 /\ d > 0

\* while (attackerTroops > 0 && defenderTroops > 0)
BothHaveTroops(a, d) == a > 0 /\ d > 0

LoserStrict(attackerScore, defenderScore) ==
    IF defenderScore > attackerScore THEN "attacker" ELSE "defender"

\* const loser = defenderScore >= attackerScore ? "attacker" : "defender"
Loser(attackerScore, defenderScore) ==
    IF defenderScore >= attackerScore THEN "attacker" ELSE "defender"

RollOfSecondCall(first, second) == second

\* const attackerRoll = rollDie(): the value of the iteration's first call
AttackerRoll(first, second) == first

\* const defenderRoll = rollDie(): the value of the iteration's second call
DefenderRoll(first, second) == second

LoseTwo(troops) == troops - 2

\* attackerTroops -= 1 / defenderTroops -= 1
LoseTroop(troops) == troops - 1

AttackerWonAtZero(a) == a >= 0

\* const attackerWon = attackerTroops > 0
AttackerWon(a) == a > 0

WinnerKnights(attackerWon) ==
    IF attackerWon THEN battle.attackerKnightsOnHex
    ELSE battle.defenderKnightsOnHex

\* const eliminatedKnightNames = attackerWon ? [...defender's] : [...attacker's]
EliminatedKnightNames(attackerWon) ==
    IF attackerWon THEN battle.defenderKnightsOnHex
    ELSE battle.attackerKnightsOnHex

\* The loop of lines 56-80 and line 82 as a function of the troop counts
\* and bonuses: the results it can end with, over the values of the die.
RECURSIVE BattleOutcomes(_, _, _, _)
BattleOutcomes(a, d, bonusOfAttacker, bonusOfDefender) ==
    IF ~BothHaveTroops(a, d)
    THEN {[attackerWon |-> AttackerWon(a), attackerTroops |-> a, defenderTroops |-> d]}
    ELSE UNION {
        IF loser = "attacker"
        THEN BattleOutcomes(LoseTroop(a), d, bonusOfAttacker, bonusOfDefender)
        ELSE BattleOutcomes(a, LoseTroop(d), bonusOfAttacker, bonusOfDefender)
        : loser \in {Loser(first + bonusOfAttacker, second + bonusOfDefender) :
                        first \in 1..6, second \in 1..6}}

\* Battles between alliances of sizes 1, 3, 6 and 7, both sides with troops.
SiegeInputs ==
    {[attackerNickname |-> "Alice",
      defenderNickname |-> "Bob",
      attackerTroops |-> [num |-> a, den |-> 1],
      defenderTroops |-> [num |-> d, den |-> 1],
      attackerAllianceMembers |-> am,
      defenderAllianceMembers |-> dm,
      attackerKnightsOnHex |-> <<"Sir Alice 0">>,
      defenderKnightsOnHex |-> <<"Sir Bob 0">>] :
        a \in 1..MaxTroops, d \in 1..MaxTroops,
        am \in {1, 3, 6, 7}, dm \in {1, 3, 6, 7}}

SiegeInit ==
    /\ bpc = "called"
    /\ battle \in SiegeInputs
    /\ attackerBonus = 0
    /\ defenderBonus = 0
    /\ attackerTroops = 0
    /\ defenderTroops = 0
    /\ rounds = <<>>
    /\ rolled = <<>>
    /\ outcome = None

BattleInit ==
    /\ bpc = "called"
    /\ battle \in BattleInputs
    /\ attackerBonus = 0
    /\ defenderBonus = 0
    /\ attackerTroops = 0
    /\ defenderTroops = 0
    /\ rounds = <<>>
    /\ rolled = <<>>
    /\ outcome = None

\* No battle is being resolved.
BattleOff ==
    /\ bpc = "off"
    /\ battle = None
    /\ attackerBonus = 0
    /\ defenderBonus = 0
    /\ attackerTroops = 0
    /\ defenderTroops = 0
    /\ rounds = <<>>
    /\ rolled = <<>>
    /\ outcome = None

BattleEnter ==
    /\ bpc = "called"
    /\ attackerBonus' = CalculateLegacyBattleBonus(battle.attackerAllianceMembers)
    /\ defenderBonus' = CalculateLegacyBattleBonus(battle.defenderAllianceMembers)
    /\ attackerTroops' = ClampTroops(battle.attackerTroops)
    /\ defenderTroops' = ClampTroops(battle.defenderTroops)
    /\ rounds' = <<>>
    /\ bpc' = "loop"
    /\ UNCHANGED <<battle, rolled, outcome>>
    /\ UNCHANGED <<vars, knights, ovars, hvars, pvars, gvars, jvars, svars>>

BattleRound ==
    /\ bpc = "loop"
    /\ BothHaveTroops(attackerTroops, defenderTroops)
    /\ \E first \in DieFaces : \E second \in DieFaces :
        LET attackerRoll == AttackerRoll(first, second)
            defenderRoll == DefenderRoll(first, second)
            attackerScore == attackerRoll + attackerBonus
            defenderScore == defenderRoll + defenderBonus
            loser == Loser(attackerScore, defenderScore)
            attackerAfter == IF loser = "attacker"
                             THEN LoseTroop(attackerTroops) ELSE attackerTroops
            defenderAfter == IF loser = "attacker"
                             THEN defenderTroops ELSE LoseTroop(defenderTroops)
        IN  /\ rolled' = rolled \o <<first, second>>
            /\ attackerTroops' = attackerAfter
            /\ defenderTroops' = defenderAfter
            /\ rounds' = Append(rounds,
                   [attackerRoll |-> attackerRoll,
                    defenderRoll |-> defenderRoll,
                    attackerScore |-> attackerScore,
                    defenderScore |-> defenderScore,
                    loser |-> loser,
                    attackerTroopsAfter |-> attackerAfter,
                    defenderTroopsAfter |-> defenderAfter])
    /\ UNCHANGED <<bpc, battle, attackerBonus, defenderBonus, outcome>>
    /\ UNCHANGED <<vars, knights, ovars, hvars, pvars, gvars, jvars, svars>>

BattleFinish ==
    /\ bpc = "loop"
    /\ ~BothHaveTroops(attackerTroops, defenderTroops)
    /\ LET attackerWon == AttackerWon(attackerTroops)
           winnerNickname == IF attackerWon THEN battle.attackerNickname
                             ELSE battle.defenderNickname
       IN  outcome' =
             [winnerNickname |-> winnerNickname,
              loserNickname |-> IF attackerWon THEN battle.defenderNickname
                                ELSE battle.attackerNickname,
              attackerTroopsRemaining |-> attackerTroops,
              defenderTroopsRemaining |-> defenderTroops,
              attackerBonus |-> attackerBonus,
              defenderBonus |-> defenderBonus,
              rounds |-> rounds,
              eliminatedKnightNames |-> EliminatedKnightNames(attackerWon),
              newOwnerNickname |-> winnerNickname]
    /\ bpc' = "done"
    /\ UNCHANGED <<battle, attackerBonus, defenderBonus, attackerTroops,
                   defenderTroops, rounds, rolled>>
    /\ UNCHANGED <<vars, knights, ovars, hvars, pvars, gvars, jvars, svars>>

BattleNext == BattleEnter \/ BattleRound \/ BattleFinish

---------------------------------------------------------------------------
(* The order validator: validateLegacyOrder, with its types and helpers,   *)
(* packages/domain/test/order-validation.spec.ts lines 190-360.  The states *)
(* are those of createState() (lines 6-55) and variations of its knight and *)
(* of its hexes 23 and 24.  A failure's message is left out.                *)

LEGACY_TROOPS_TO_PROMOTE_KNIGHT == 100

LegacyOrderTypes == {"move", "fortify", "promote", "attack"}

\* hexesByIndex of createState(): hex 23 with the owner's troops, hex 24
\* with its owner.
Hexes(troops23, owner24) ==
    [i \in {23, 24, 33, 55} |->
        CASE i = 23 -> [index |-> 23, neighbors |-> <<14, 24, 34, 33, 22, 13>>,
                        ownerNickname |-> Some("Alice"),
                        troopsByPlayer |-> [n \in {"Alice"} |-> troops23]]
          [] i = 24 -> [index |-> 24, neighbors |-> <<15, 25, 35, 34, 23, 14>>,
                        ownerNickname |-> owner24,
                        troopsByPlayer |-> [n \in {"Bob"} |-> 100]]
          [] i = 33 -> [index |-> 33, neighbors |-> <<23, 34, 43, 42, 32, 22>>,
                        ownerNickname |-> Absent,
                        troopsByPlayer |-> [n \in {} |-> 0]]
          [] i = 55 -> [index |-> 55, neighbors |-> <<45, 56, 65, 64, 54, 44>>,
                        ownerNickname |-> Some("Bob"),
                        troopsByPlayer |-> [n \in {"Bob"} |-> 50]]]

\* playersByNickname of createState(), with Alice's knight as given.
Players(knight) ==
    [n \in {"Alice", "Bob"} |->
        IF n = "Alice"
        THEN [nickname |-> "Alice", allianceName |-> "A", knights |-> <<knight>>]
        ELSE [nickname |-> "Bob", allianceName |-> "B", knights |-> <<>>]]

KnightVariants ==
    {[name |-> "Sir Alice 0", ownerNickname |-> o, location |-> 23,
      projectedPositions |-> pp, alive |-> al] :
        o \in {"Alice", "Bob"},
        pp \in {Absent, Some(<<23, 24, 24>>)},
        al \in {Absent, Some(TRUE), Some(FALSE)}}

ValidationStates ==
    {[hexesByIndex |-> Hexes(t, o), playersByNickname |-> Players(k)] :
        t \in {50, 150},
        o \in {Some("Bob"), Some("Alice"), Absent},
        k \in KnightVariants}

LegacyOrderInputs ==
    {[orderNumber |-> n, type |-> ty, knightName |-> kn, from |-> f, to |-> t,
      ownerNickname |-> o, troops |-> tr] :
        n \in 0..(LEGACY_MAX_ORDERS_PER_PLAYER + 1),
        ty \in LegacyOrderTypes,
        kn \in {"Sir Alice 0", "Sir Bob 0"},
        f \in {23, 24, 99},
        t \in {23, 24, 55, 99},
        o \in {"Alice", "Carol"},
        tr \in {0, 10, 200}}

OkWithoutTroops(normalized) ==
    [ok |-> TRUE, normalized |-> [normalized EXCEPT !.troops = 0]]

\* ok
ValidationOk(normalized) == [ok |-> TRUE, normalized |-> normalized]

ValidationFail(code) == [ok |-> FALSE, code |-> code]

\* player.knights.find((k) => k.name === input.knightName)
RECURSIVE FindKnight(_, _)
FindKnight(list, name) ==
    IF list = <<>> THEN Absent
    ELSE IF Head(list).name = name THEN Some(Head(list))
    ELSE FindKnight(Tail(list), name)

ProjectedPositionSameSlot(knight, orderNumber) ==
    IF orderNumber <= 1 THEN knight.location
    ELSE IF knight.projectedPositions = Absent THEN knight.location
    ELSE LET positions == knight.projectedPositions[1]
         IN  IF orderNumber \in DOMAIN positions
             THEN positions[orderNumber] ELSE knight.location

\* projectedPositionForOrder: projectedPositions[orderNumber - 2] of the
\* 0-based array is element orderNumber - 1 of the sequence.
ProjectedPositionForOrder(knight, orderNumber) ==
    IF orderNumber <= 1 THEN knight.location
    ELSE IF knight.projectedPositions = Absent THEN knight.location
    ELSE LET positions == knight.projectedPositions[1]
         IN  IF orderNumber - 1 \in DOMAIN positions
             THEN positions[orderNumber - 1] ELSE knight.location

\* isNeighbor
IsNeighbor(fromHex, toIndex) ==
    \E i \in DOMAIN fromHex.neighbors : fromHex.neighbors[i] = toIndex

\* troopsOnHex
TroopsOnHex(hex, ownerNickname) ==
    IF ownerNickname \in DOMAIN hex.troopsByPlayer
    THEN hex.troopsByPlayer[ownerNickname] ELSE 0

ValidateTroopsFirst(order, fromHex, toHex) ==
    IF order.troops <= 0 THEN ValidationFail("INVALID_TROOP_COUNT")
    ELSE IF ~IsNeighbor(fromHex, order.to) THEN ValidationFail("NOT_NEIGHBOR")
    ELSE IF TroopsOnHex(fromHex, order.ownerNickname) < order.troops
    THEN ValidationFail("INSUFFICIENT_TROOPS")
    ELSE IF /\ order.type = "attack"
            /\ \/ toHex.ownerNickname = Absent
               \/ toHex.ownerNickname = Some(order.ownerNickname)
    THEN ValidationFail("ATTACK_TARGET_NOT_ENEMY")
    ELSE ValidationOk(order)

ValidateAttackOnOwned(order, fromHex, toHex) ==
    IF ~IsNeighbor(fromHex, order.to) THEN ValidationFail("NOT_NEIGHBOR")
    ELSE IF order.troops <= 0 THEN ValidationFail("INVALID_TROOP_COUNT")
    ELSE IF TroopsOnHex(fromHex, order.ownerNickname) < order.troops
    THEN ValidationFail("INSUFFICIENT_TROOPS")
    ELSE IF order.type = "attack" /\ toHex.ownerNickname = Absent
    THEN ValidationFail("ATTACK_TARGET_NOT_ENEMY")
    ELSE ValidationOk(order)

ValidateTargetAlways(order, fromHex, toHex) ==
    IF ~IsNeighbor(fromHex, order.to) THEN ValidationFail("NOT_NEIGHBOR")
    ELSE IF order.troops <= 0 THEN ValidationFail("INVALID_TROOP_COUNT")
    ELSE IF TroopsOnHex(fromHex, order.ownerNickname) < order.troops
    THEN ValidationFail("INSUFFICIENT_TROOPS")
    ELSE IF \/ toHex.ownerNickname = Absent
            \/ toHex.ownerNickname = Some(order.ownerNickname)
    THEN ValidationFail("ATTACK_TARGET_NOT_ENEMY")
    ELSE ValidationOk(order)

\* validateLegacyOrder, lines 341-359: a move or an attack.
ValidateMoveOrAttack(order, fromHex, toHex) ==
    IF ~IsNeighbor(fromHex, order.to) THEN ValidationFail("NOT_NEIGHBOR")
    ELSE IF order.troops <= 0 THEN ValidationFail("INVALID_TROOP_COUNT")
    ELSE IF TroopsOnHex(fromHex, order.ownerNickname) < order.troops
    THEN ValidationFail("INSUFFICIENT_TROOPS")
    ELSE IF /\ order.type = "attack"
            /\ \/ toHex.ownerNickname = Absent
               \/ toHex.ownerNickname = Some(order.ownerNickname)
    THEN ValidationFail("ATTACK_TARGET_NOT_ENEMY")
    ELSE ValidationOk(order)

\* validateLegacyOrder, lines 306-339: the hexes, the source, then fortify
\* and promote.
ValidateOnBoard(order, state, knight) ==
    IF order.from \notin DOMAIN state.hexesByIndex
       \/ order.to \notin DOMAIN state.hexesByIndex
    THEN ValidationFail("HEX_NOT_FOUND")
    ELSE LET fromHex == state.hexesByIndex[order.from]
             toHex == state.hexesByIndex[order.to]
             expectedFrom == ProjectedPositionForOrder(knight, order.orderNumber)
         IN  IF expectedFrom # order.from THEN ValidationFail("FROM_MISMATCH")
             ELSE IF order.type = "fortify"
             THEN IF order.to # order.from
                  THEN ValidationFail("FORTIFY_DESTINATION_INVALID")
                  ELSE ValidationOk(order)
             ELSE IF order.type = "promote"
             THEN IF order.to # order.from
                  THEN ValidationFail("PROMOTE_DESTINATION_INVALID")
                  ELSE IF TroopsOnHex(fromHex, order.ownerNickname)
                             < LEGACY_TROOPS_TO_PROMOTE_KNIGHT
                  THEN ValidationFail("PROMOTE_INSUFFICIENT_TROOPS")
                  ELSE ValidationOk(order)
             ELSE ValidateMoveOrAttack(order, fromHex, toHex)

\* validateLegacyOrder
ValidateLegacyOrder(order, state) ==
    IF order.orderNumber < 1 \/ order.orderNumber > LEGACY_MAX_ORDERS_PER_PLAYER
    THEN ValidationFail("INVALID_ORDER_NUMBER")
    ELSE IF order.ownerNickname \notin DOMAIN state.playersByNickname
    THEN ValidationFail("PLAYER_NOT_FOUND")
    ELSE LET player == state.playersByNickname[order.ownerNickname]
             found == FindKnight(player.knights, order.knightName)
         IN  IF found = Absent THEN ValidationFail("KNIGHT_NOT_FOUND")
             ELSE IF found[1].ownerNickname # order.ownerNickname
             THEN ValidationFail("KNIGHT_NOT_OWNED")
             ELSE IF found[1].alive = Some(FALSE) THEN ValidationFail("KNIGHT_DEAD")
             ELSE ValidateOnBoard(order, state, found[1])

\* validateLegacyOrder(input, state) is called.
ValidateInit ==
    /\ vpc = "called"
    /\ request \in [order : LegacyOrderInputs, state : ValidationStates]
    /\ verdict = None

\* No order is being validated.
ValidateOff ==
    /\ vpc = "off"
    /\ request = None
    /\ verdict = None

Validate ==
    /\ vpc = "called"
    /\ verdict' = ValidateLegacyOrder(request.order, request.state)
    /\ vpc' = "returned"
    /\ UNCHANGED request
    /\ UNCHANGED <<vars, knights, bvars, hvars, pvars, gvars, jvars, svars>>

---------------------------------------------------------------------------
(* The board builder: buildLegacyBoardSpec and getLegacyHexNeighbors,      *)
(* packages/domain/src/parity.ts lines 17-111.                             *)
(*   BoardCreate  lines 72-83: the hexes with their first types;           *)
(*   BoardVisit   lines 85-102: one iteration of the loop over the hexes;  *)
(*   BoardReturn  lines 104-110: the board.                                *)

LEGACY_BOARD_WIDTH == 10
LEGACY_BOARD_HEIGHT == 11
LEGACY_KEEP_IDS == <<23, 26, 52, 58, 83, 86>>
LEGACY_CASTLE_ID == 55
LEGACY_LAND_OVERRIDES == <<35, 46, 75, 63, 43, 66>>

Members(list) == {list[i] : i \in DOMAIN list}

\* const totalHexes = LEGACY_BOARD_WIDTH * LEGACY_BOARD_HEIGHT
TotalHexes == LEGACY_BOARD_WIDTH * LEGACY_BOARD_HEIGHT

IndexPlusHeight(x, y) == x + LEGACY_BOARD_HEIGHT * y

\* legacyBoardIndex
LegacyBoardIndex(x, y) == x + LEGACY_BOARD_WIDTH * y

\* legacyBoardX
LegacyBoardX(index) == index % LEGACY_BOARD_WIDTH

\* legacyBoardY
LegacyBoardY(index) == index \div LEGACY_BOARD_WIDTH

PointsSkewed(x, y) ==
    IF y % 2 # 0
    THEN <<<<x, y - 1>>, <<x + 1, y>>, <<x, y + 1>>,
           <<x + 1, y + 1>>, <<x - 1, y>>, <<x - 1, y - 1>>>>
    ELSE <<<<x + 1, y - 1>>, <<x + 1, y>>, <<x + 1, y + 1>>,
           <<x, y + 1>>, <<x - 1, y>>, <<x, y - 1>>>>

\* getLegacyHexNeighbors: the six points of a hex, by the parity of its row.
Points(x, y) ==
    IF y % 2 # 0
    THEN <<<<x, y - 1>>, <<x + 1, y>>, <<x, y + 1>>,
           <<x - 1, y + 1>>, <<x - 1, y>>, <<x - 1, y - 1>>>>
    ELSE <<<<x + 1, y - 1>>, <<x + 1, y>>, <<x + 1, y + 1>>,
           <<x, y + 1>>, <<x - 1, y>>, <<x, y - 1>>>>

\* getLegacyHexNeighbors: null for a point off the grid, else its index.
PointIndex(point) ==
    IF \/ point[1] < 0 \/ point[1] >= LEGACY_BOARD_WIDTH
       \/ point[2] < 0 \/ point[2] >= LEGACY_BOARD_HEIGHT
    THEN Absent
    ELSE Some(LegacyBoardIndex(point[1], point[2]))

\* getLegacyHexNeighbors
GetLegacyHexNeighbors(index) ==
    LET points == Points(LegacyBoardX(index), LegacyBoardY(index))
    IN  [k \in DOMAIN points |-> PointIndex(points[k])]

CastleNextDoor(index) ==
    IF index \in Members(LEGACY_KEEP_IDS) THEN "KEEP"
    ELSE IF index = LEGACY_CASTLE_ID + 1 THEN "CASTLE"
    ELSE "BLANK"

\* The type a hex is created with.
FirstType(index) ==
    IF index \in Members(LEGACY_KEEP_IDS) THEN "KEEP"
    ELSE IF index = LEGACY_CASTLE_ID THEN "CASTLE"
    ELSE "BLANK"

Unpromoted(type) == type

\* if (neighbor.type !== "KEEP" && neighbor.type !== "CASTLE") neighbor.type = "LAND"
Promoted(type) == IF type # "KEEP" /\ type # "CASTLE" THEN "LAND" ELSE type

\* The hexes after the loop's iteration for the hex at `index`.
Visited(hs, index) ==
    LET neighbors == GetLegacyHexNeighbors(index)
        stronghold == hs[index].type = "KEEP" \/ hs[index].type = "CASTLE"
        typeOf(i) ==
            IF i = index /\ index \in Members(LEGACY_LAND_OVERRIDES) THEN "LAND"
            ELSE IF stronghold /\ \E k \in DOMAIN neighbors : neighbors[k] = Some(i)
            THEN Promoted(hs[i].type)
            ELSE hs[i].type
    IN  [i \in DOMAIN hs |->
            [index |-> hs[i].index,
             type |-> typeOf(i),
             neighbors |-> IF i = index THEN neighbors ELSE hs[i].neighbors]]

\* buildLegacyBoardSpec() is called.
BoardInit ==
    /\ hpc = "called"
    /\ hexes = <<>>
    /\ cursor = 0
    /\ board = None

\* No board is being built.
BoardOff ==
    /\ hpc = "off"
    /\ hexes = <<>>
    /\ cursor = 0
    /\ board = None

BoardCreate ==
    /\ hpc = "called"
    /\ hexes' = [index \in 0..(TotalHexes - 1) |->
                    [index |-> index, type |-> FirstType(index), neighbors |-> <<>>]]
    /\ cursor' = 0
    /\ hpc' = "loop"
    /\ UNCHANGED board
    /\ UNCHANGED <<vars, knights, bvars, ovars, pvars, gvars, jvars, svars>>

BoardVisit ==
    /\ hpc = "loop"
    /\ cursor \in DOMAIN hexes
    /\ hexes' = Visited(hexes, cursor)
    /\ cursor' = cursor + 1
    /\ UNCHANGED <<hpc, board>>
    /\ UNCHANGED <<vars, knights, bvars, ovars, pvars, gvars, jvars, svars>>

BoardReturn ==
    /\ hpc = "loop"
    /\ cursor \notin DOMAIN hexes
    /\ board' = [width |-> LEGACY_BOARD_WIDTH,
                 height |-> LEGACY_BOARD_HEIGHT,
                 keepIds |-> LEGACY_KEEP_IDS,
                 castleId |-> LEGACY_CASTLE_ID,
                 hexes |-> hexes]
    /\ hpc' = "returned"
    /\ UNCHANGED <<hexes, cursor>>
    /\ UNCHANGED <<vars, knights, bvars, ovars, pvars, gvars, jvars, svars>>

BoardNext == BoardCreate \/ BoardVisit \/ BoardReturn

---------------------------------------------------------------------------
(* The game page's planned orders: apps/web/src/routes/game-page.tsx.      *)
(*   parsePlannedOrder     lines 152-185;                                  *)
(*   issuedOrdersByNumber  lines 917-944, recomputed when gameEvents       *)
(*                         changes;                                        *)
(*   PageReceive           line 751: an inserted game event arrives.       *)
(* A JSON value of unknown type is a record with a tag.                    *)

MaxEvents == 3          \* events that arrive after the page has loaded

GAME_EVENTS_KEPT == 200 \* .slice(0, 200)

CurrentUserId == "u1"   \* authQuery.data.id
CurrentRound == 1       \* gameDetailsQuery.data.game.round

Num(n) == [tag |-> "number", num |-> n, den |-> 1]
Half(n) == [tag |-> "number", num |-> n, den |-> 2]
Text(t) == [tag |-> "string", text |-> t]
Null == [tag |-> "null"]

\* asNumber: a number (every number of a JSON payload is finite), else null
AsNumber(value) == IF value.tag = "number" THEN Some(value) ELSE Absent

\* asText: a string that is not blank, else null
AsText(value) ==
    IF value.tag = "string" /\ value.text # "" THEN Some(value.text) ELSE Absent

\* asRecord: an object that is not an array, else null
AsRecord(value) == IF value.tag = "object" THEN Some(value) ELSE Absent

\* Number.isInteger
IsInteger(number) == number.num % number.den = 0

\* The integer a number is, when it is one.
IntegerOf(number) == number.num \div number.den

ParseAnySlot(payload) ==
    LET orderNumber == AsNumber(payload.orderNumber)
        fromHexId == AsNumber(payload.fromHexId)
        toHexId == AsNumber(payload.toHexId)
    IN  IF orderNumber = Absent \/ fromHexId = Absent \/ toHexId = Absent THEN Absent
        ELSE IF ~IsInteger(orderNumber[1]) THEN Absent
        ELSE Some([orderNumber |-> IntegerOf(orderNumber[1]),
                   fromHexId |-> IntegerOf(fromHexId[1]),
                   toHexId |-> IntegerOf(toHexId[1]),
                   actionType |-> "move",
                   troopCount |-> Absent])

\* parsePlannedOrder
ParsePlannedOrder(payload) ==
    LET orderNumber == AsNumber(payload.orderNumber)
        fromHexId == AsNumber(payload.fromHexId)
        toHexId == AsNumber(payload.toHexId)
        actionTypeRaw == IF AsText(payload.actionType) = Absent THEN "move"
                         ELSE AsText(payload.actionType)[1]
        actionType == IF actionTypeRaw \in {"move", "attack", "fortify", "promote"}
                      THEN actionTypeRaw ELSE "move"
        troopCount == AsNumber(payload.troopCount)
        moves == actionType = "move" \/ actionType = "attack"
        normalizedTroopCount ==
            IF moves /\ troopCount # Absent
                     /\ IsInteger(troopCount[1]) /\ IntegerOf(troopCount[1]) > 0
            THEN Some(IntegerOf(troopCount[1])) ELSE Absent
    IN  IF orderNumber = Absent \/ fromHexId = Absent \/ toHexId = Absent THEN Absent
        ELSE IF \/ ~IsInteger(orderNumber[1])
                \/ ~IsInteger(fromHexId[1])
                \/ ~IsInteger(toHexId[1]) THEN Absent
        ELSE IF IntegerOf(orderNumber[1]) < 1 \/ IntegerOf(orderNumber[1]) > 3 THEN Absent
        ELSE IF moves /\ normalizedTroopCount = Absent THEN Absent
        ELSE Some([orderNumber |-> IntegerOf(orderNumber[1]),
                   fromHexId |-> IntegerOf(fromHexId[1]),
                   toHexId |-> IntegerOf(toHexId[1]),
                   actionType |-> actionType,
                   troopCount |-> normalizedTroopCount])

\* Map.prototype.delete
MapDelete(map, key) == SelectSeq(map, LAMBDA entry : entry.key # key)

\* Map.prototype.set: the value of an entry with the key, else a new last entry
MapSet(map, key, value) ==
    IF \E i \in DOMAIN map : map[i].key = key
    THEN [i \in DOMAIN map |->
            IF map[i].key = key THEN [key |-> key, value |-> value] ELSE map[i]]
    ELSE Append(map, [key |-> key, value |-> value])

\* The later slots are kept.
KeepLaterSlots(map, next) == map

\* for (let next = ...; next <= 3; next += 1) orders.delete(next)
RECURSIVE DeleteSlots(_, _)
DeleteSlots(map, next) ==
    IF next <= 3 THEN DeleteSlots(MapDelete(map, next), next + 1) ELSE map

\* [...].sort((left, right) => left.id - right.id), by insertion
RECURSIVE InsertById(_, _)
InsertById(sorted, event) ==
    IF sorted = <<>> THEN <<event>>
    ELSE IF event.id < Head(sorted).id THEN <<event>> \o sorted
    ELSE <<Head(sorted)>> \o InsertById(Tail(sorted), event)

RECURSIVE SortById(_)
SortById(list) ==
    IF list = <<>> THEN <<>> ELSE InsertById(SortById(Tail(list)), Head(list))

\* issuedOrdersByNumber: the body of the loop over the relevant events
OrdersAfterEvent(ofRound, orders, event) ==
    LET eventRound == AsNumber(event.payload.round)
        eventPlayer == event.caused_by
        eventCommandType == AsText(event.payload.commandType)
        nestedPayload == AsRecord(event.payload.payload)
        order == IF nestedPayload = Absent THEN Absent
                 ELSE ParsePlannedOrder(nestedPayload[1])
    IN  IF eventRound # Some(Num(ofRound)) THEN orders
        ELSE IF eventPlayer # Some(CurrentUserId) THEN orders
        ELSE IF eventCommandType # Some("order.submit") THEN orders
        ELSE IF order = Absent THEN orders
        ELSE DeleteSlots(MapSet(orders, order[1].orderNumber, order[1]),
                         order[1].orderNumber + 1)

RECURSIVE OrdersAfterEvents(_, _, _)
OrdersAfterEvents(ofRound, orders, relevantEvents) ==
    IF relevantEvents = <<>> THEN orders
    ELSE OrdersAfterEvents(ofRound,
                           OrdersAfterEvent(ofRound, orders, Head(relevantEvents)),
                           Tail(relevantEvents))

\* issuedOrdersByNumber, a memo over gameEvents and currentRound
IssuedOrdersByNumber(ofRound, list) ==
    OrdersAfterEvents(ofRound, <<>>,
        SortById(SelectSeq(list, LAMBDA e : e.event_type = "command.received")))

\* The payload of an order.submit command.
OrderPayload(orderNumber, toHexId, actionType, troopCount) ==
    [tag |-> "object", orderNumber |-> orderNumber, fromHexId |-> Num(23),
     toHexId |-> toHexId, actionType |-> actionType, troopCount |-> troopCount]

\* A game event, but for its id.
GameEvent(type, by, r, commandType, payload) ==
    [event_type |-> type, caused_by |-> by,
     payload |-> [round |-> r, commandType |-> commandType, payload |-> payload]]

Submit(payload) ==
    GameEvent("command.received", Some(CurrentUserId), Num(CurrentRound),
              Text("order.submit"), payload)

GoodPayload == OrderPayload(Num(1), Num(24), Text("move"), Num(10))

\* The events that arrive: the user's orders for the slots, to one of two
\* hexes; payloads the parser turns down; a fortify; an unknown action; and
\* events of another round, player, command or type.
ArrivingEvents ==
    {Submit(OrderPayload(Num(n), Num(t), Text("move"), Num(10))) :
        n \in 1..3, t \in {24, 33}}
    \cup {Submit(OrderPayload(n, Num(24), Text("move"), Num(10))) :
        n \in {Num(0), Num(4), Half(3), Null}}
    \cup {Submit(OrderPayload(Num(2), Num(24), Text("move"), Num(0))),
          Submit(OrderPayload(Num(2), Num(23), Text("fortify"), Null)),
          Submit(OrderPayload(Num(3), Num(24), Text("charge"), Num(10))),
          Submit(Null),
          GameEvent("command.received", Some(CurrentUserId), Num(0),
                    Text("order.submit"), GoodPayload),
          GameEvent("command.received", Some("u2"), Num(CurrentRound),
                    Text("order.submit"), GoodPayload),
          GameEvent("command.received", Absent, Num(CurrentRound),
                    Text("order.submit"), GoodPayload),
          GameEvent("command.received", Some(CurrentUserId), Num(CurrentRound),
                    Text("ready.set"), GoodPayload),
          GameEvent("chat.message", Some(CurrentUserId), Num(CurrentRound),
                    Text("order.submit"), GoodPayload)}

WithId(event, id) ==
    [id |-> id, event_type |-> event.event_type, caused_by |-> event.caused_by,
     payload |-> event.payload]

\* A chat message, which is no command.
ChatMessage ==
    GameEvent("chat.message", Some("u2"), Num(CurrentRound), Null, Null)

\* The events the page has fetched when it loads, newest first: none; the
\* user's orders for the three slots; or as many events as are fetched at
\* most, the oldest the user's order for slot 1 and the others chat messages.
FetchedEvents ==
    {<<>>,
     <<WithId(Submit(OrderPayload(Num(3), Num(55), Text("move"), Num(10))), 3),
       WithId(Submit(OrderPayload(Num(2), Num(55), Text("move"), Num(10))), 2),
       WithId(Submit(OrderPayload(Num(1), Num(55), Text("move"), Num(10))), 1)>>,
     [i \in 1..GAME_EVENTS_KEPT |->
        IF i = GAME_EVENTS_KEPT
        THEN WithId(Submit(OrderPayload(Num(1), Num(55), Text("move"), Num(10))), 1)
        ELSE WithId(ChatMessage, GAME_EVENTS_KEPT + 1 - i)]}

\* The page has loaded: setGameEvents(events), line 732.
PageInit ==
    /\ currentRound = CurrentRound
    /\ gameEvents \in FetchedEvents
    /\ issuedOrders = IssuedOrdersByNumber(currentRound, gameEvents)

\* No page is open.
PageOff ==
    /\ currentRound = 0
    /\ gameEvents = <<>>
    /\ issuedOrders = <<>>

\* The ids of the game's events grow as they are inserted; the fetched
\* events have the ids up to FetchedIds, or up to their number when they are
\* as many as are fetched at most.
FetchedIds ==
    IF Len(gameEvents) = GAME_EVENTS_KEPT THEN GAME_EVENTS_KEPT ELSE 3

NextEventId == IF gameEvents = <<>> THEN FetchedIds + 1 ELSE Head(gameEvents).id + 1

\* An inserted event arrives: setGameEvents((previous) => [next,
\* ...previous].slice(0, 200)), and the memo is computed again.
Receive(arriving) ==
    /\ NextEventId <= FetchedIds + MaxEvents
    /\ \E event \in arriving :
        /\ gameEvents' =
              SubSeq(<<WithId(event, NextEventId)>> \o gameEvents, 1,
                     IF Len(gameEvents) < GAME_EVENTS_KEPT THEN Len(gameEvents) + 1
                     ELSE GAME_EVENTS_KEPT)
        /\ issuedOrders' = IssuedOrdersByNumber(currentRound, gameEvents')
    /\ UNCHANGED currentRound
    /\ UNCHANGED <<vars, knights, bvars, ovars, hvars, gvars, jvars, svars>>

PageReceive == Receive(ArrivingEvents)

MaxPageRound == 2   \* the last round the page sees

\* The events that arrive over the rounds: the user's orders for slots 1
\* and 2, each to one of two hexes, and another player's order, for each round; a ready.set command
\* of the user; a chat message.
RoundEvents ==
    {GameEvent("command.received", Some(CurrentUserId), Num(r), Text("order.submit"),
               OrderPayload(Num(n), Num(to), Text("move"), Num(10))) :
        r \in CurrentRound..MaxPageRound, n \in {1, 2}, to \in {24, 33}}
    \cup {GameEvent("command.received", Some("u2"), Num(r), Text("order.submit"),
                    GoodPayload) : r \in CurrentRound..MaxPageRound}
    \cup {GameEvent("command.received", Some(CurrentUserId), Num(CurrentRound),
                    Text("ready.set"), GoodPayload),
          ChatMessage}

\* The game's round has advanced and the page has the game's details
\* again: the memo is computed for the new currentRound.
PageAdvance ==
    /\ currentRound >= CurrentRound
    /\ currentRound < MaxPageRound
    /\ currentRound' = currentRound + 1
    /\ UNCHANGED gameEvents
    /\ issuedOrders' = IssuedOrdersByNumber(currentRound + 1, gameEvents)
    /\ UNCHANGED <<vars, knights, bvars, ovars, hvars, gvars, jvars, svars>>

---------------------------------------------------------------------------
(* A game of one player: orders are queued when validateLegacyOrder takes  *)
(* them and the round executor issues the queued orders.  The queueing of  *)
(* an accepted order and the effect of an issued attack on the knight are  *)
(* not code of packages/domain; they follow the core's submit_order, its   *)
(* overwrite rule and its Attack mutator.                                  *)

MaxGameOrders == 3      \* orders issued in a game before the last round

\* The state a submitted order is validated against: createState() with the
\* game's knight.
GameState ==
    [hexesByIndex |-> Hexes(150, Some("Bob")), playersByNickname |-> Players(gameKnight)]

\* The orders the player submits: for the knight, from its keep.
GameOrderInputs ==
    {[orderNumber |-> n, type |-> ty, knightName |-> "Sir Alice 0", from |-> 23,
      to |-> IF ty = "fortify" THEN 23 ELSE 24, ownerNickname |-> "Alice",
      troops |-> 10] :
        n \in OrderNumbers, ty \in {"move", "attack", "fortify"}}

\* Setting order slot n removes the orders at the slots from n on.
SetOrder(queue, order) ==
    Append(SelectSeq(queue, LAMBDA o : o.orderNumber < order.orderNumber), order)

\* The Attack mutator marks the eliminated knights dead: the attacker's
\* knight when the attacker has lost the battle.
MarkEliminated(actor, order, attackerWon) ==
    IF order.type = "attack" /\ ~attackerWon
    THEN [actor EXCEPT !.alive = Some(FALSE)]
    ELSE actor

\* A game has started, with the knight of createState().
GameInit ==
    /\ gamePhase = "planning"
    /\ gameKnight = [name |-> "Sir Alice 0", ownerNickname |-> "Alice",
                     location |-> 23, projectedPositions |-> Absent,
                     alive |-> Some(TRUE)]
    /\ gameOrders = <<>>
    /\ gameIssued = <<>>

\* No game is played.
GameOff ==
    /\ gamePhase = "off"
    /\ gameKnight = None
    /\ gameOrders = <<>>
    /\ gameIssued = <<>>

\* submit_order: an order validateLegacyOrder takes is queued.
GameSubmit ==
    /\ gamePhase = "planning"
    /\ Len(gameIssued) < MaxGameOrders
    /\ \E order \in GameOrderInputs :
        LET validation == ValidateLegacyOrder(order, GameState)
        IN  /\ validation.ok
            /\ gameOrders' = SetOrder(gameOrders, validation.normalized)
    /\ UNCHANGED <<gamePhase, gameKnight, gameIssued>>
    /\ UNCHANGED <<vars, knights, bvars, ovars, hvars, pvars, jvars, svars>>

\* The player is ready and runLegacyRoundExecutor is called.
GameExecute ==
    /\ gamePhase = "planning"
    /\ gamePhase' = "executing"
    /\ UNCHANGED <<gameKnight, gameOrders, gameIssued>>
    /\ UNCHANGED <<vars, knights, bvars, ovars, hvars, pvars, jvars, svars>>

\* One iteration of the executor's loop: player.orders.shift() and the
\* order_issued event; the order's mutator acts on the knight.
GameIssue ==
    /\ gamePhase = "executing"
    /\ gameOrders # <<>>
    /\ gameOrders' = Shifted(gameOrders).rest
    /\ gameIssued' = Push(gameIssued, [order |-> Shifted(gameOrders).order,
                                       actorAlive |-> gameKnight.alive])
    /\ \E attackerWon \in BOOLEAN :
        gameKnight' = MarkEliminated(gameKnight, Shifted(gameOrders).order, attackerWon)
    /\ UNCHANGED gamePhase
    /\ UNCHANGED <<vars, knights, bvars, ovars, hvars, pvars, jvars, svars>>

\* The loop ends with no order pending: the round has advanced.
GameAdvance ==
    /\ gamePhase = "executing"
    /\ gameOrders = <<>>
    /\ gamePhase' = "planning"
    /\ UNCHANGED <<gameKnight, gameOrders, gameIssued>>
    /\ UNCHANGED <<vars, knights, bvars, ovars, hvars, pvars, jvars, svars>>

GameNext == GameSubmit \/ GameExecute \/ GameIssue \/ GameAdvance

---------------------------------------------------------------------------
(* The planner's projection: applyProjectedOrderMove and                   *)
(* ensureProjectedHex, apps/web/src/routes/game-page.tsx lines 278-337.    *)
(* The two hexes of a call are objects of the Map: when an order's hexes   *)
(* are the same hex, an update of the one is an update of the other.       *)

MaxCalls == 2       \* calls of applyProjectedOrderMove in a projection

Min(a, b) == IF a <= b THEN a ELSE b

\* The planned orders of the calls: from hex 23 or 24, to hex 23, 24 or 33,
\* without troops, with 30 or with 60 troops.
PlannedOrders ==
    {[orderNumber |-> 1, fromHexId |-> f, toHexId |-> t, actionType |-> ty,
      troopCount |-> tr] :
        f \in {23, 24}, t \in {23, 24, 33},
        ty \in {"move", "attack", "fortify", "promote"},
        tr \in {Absent, Some(30), Some(60)}}

PlayerUserIds == {Some(CurrentUserId), Absent}

\* The projected hexes a projection starts from: hex 23 of the user and hex
\* 24 of the user, of another player or of nobody; hex 33 has no snapshot.
StartingProjections ==
    {[h \in {23, 24} |->
        IF h = 23
        THEN [ownerUserId |-> Some(CurrentUserId), troopCount |-> t23, knightCount |-> 1]
        ELSE [ownerUserId |-> o24, troopCount |-> t24, knightCount |-> 0]] :
        t23 \in {0, 50, 150}, t24 \in {0, 30, 50},
        o24 \in {Some(CurrentUserId), Some("u2"), Absent}}

\* ensureProjectedHex
EnsureProjectedHex(state, hexId) ==
    IF hexId \in DOMAIN state THEN state
    ELSE [h \in DOMAIN state \cup {hexId} |->
            IF h = hexId
            THEN [ownerUserId |-> Absent, troopCount |-> 0, knightCount |-> 0]
            ELSE state[h]]

MovedAsRequested(requested, available) == requested

\* Math.max(0, Math.min(requested, fromHex.troopCount))
MovedTroops(requested, available) == Max(0, Min(requested, available))

TroopsReplaced(count, movedTroops) == movedTroops

\* toHex.troopCount += movedTroops
TroopsAdded(count, movedTroops) == count + movedTroops

\* Lines 320-331: the attack on the target hex, the moved troops taken off
\* the source hex.
ProjectAttack(state, to, movedTroops, playerUserId) ==
    LET defendingTroops == Max(0, state[to].troopCount)
    IN  IF movedTroops > defendingTroops
        THEN [state EXCEPT ![to].ownerUserId = playerUserId,
                           ![to].troopCount = movedTroops - defendingTroops]
        ELSE LET fought == [state EXCEPT ![to].troopCount = defendingTroops - movedTroops]
             IN  IF fought[to].troopCount = 0 /\ fought[to].ownerUserId # playerUserId
                 THEN [fought EXCEPT ![to].ownerUserId = Absent]
                 ELSE fought

\* Lines 311-336: a move or an attack.
ProjectMove(state, order, playerUserId) ==
    LET from == order.fromHexId
        to == order.toHexId
        requested == IF order.troopCount = Absent THEN 0 ELSE order.troopCount[1]
        movedTroops == MovedTroops(requested, state[from].troopCount)
        left == [state EXCEPT ![from].troopCount = @ - movedTroops]
    IN  IF state[from].troopCount <= 0 THEN state
        ELSE IF requested <= 0 THEN state
        ELSE IF movedTroops <= 0 THEN state
        ELSE IF order.actionType = "attack"
        THEN ProjectAttack(left, to, movedTroops, playerUserId)
        ELSE [left EXCEPT ![to].ownerUserId = playerUserId,
                          ![to].troopCount = TroopsAdded(@, movedTroops)]

\* applyProjectedOrderMove: the Map after the call.
ApplyProjectedOrderMove(state, order, playerUserId) ==
    LET from == order.fromHexId
        ensured == EnsureProjectedHex(EnsureProjectedHex(state, from), order.toHexId)
    IN  IF playerUserId = Absent THEN state
        ELSE IF ensured[from].ownerUserId # playerUserId THEN ensured
        ELSE IF order.actionType = "fortify"
        THEN [ensured EXCEPT ![from].troopCount = @ + 200]
        ELSE IF order.actionType = "promote"
        THEN IF ensured[from].troopCount >= 100
             THEN [ensured EXCEPT ![from].troopCount = @ - 100,
                                  ![from].knightCount = @ + 1]
             ELSE ensured
        ELSE ProjectMove(ensured, order, playerUserId)

\* A projection starts from the snapshots of the game's hexes.
ProjectInit ==
    /\ projecting = TRUE
    /\ projected \in StartingProjections
    /\ projectedOrder = None
    /\ projectedCalls = 0

\* No projection is computed.
ProjectOff ==
    /\ projecting = FALSE
    /\ projected = <<>>
    /\ projectedOrder = None
    /\ projectedCalls = 0

\* applyProjectedOrderMove(projected, order, playerUserId) is called.
ProjectOrder ==
    /\ projecting
    /\ projectedCalls < MaxCalls
    /\ \E order \in PlannedOrders : \E playerUserId \in PlayerUserIds :
        /\ projected' = ApplyProjectedOrderMove(projected, order, playerUserId)
        /\ projectedOrder' = [order |-> order, playerUserId |-> playerUserId]
    /\ projectedCalls' = projectedCalls + 1
    /\ UNCHANGED projecting
    /\ UNCHANGED <<vars, knights, bvars, ovars, hvars, pvars, gvars, svars>>

---------------------------------------------------------------------------
(* One battle round: resolveLegacyBattleStep,                              *)
(* packages/domain/src/parity.ts lines 117-127.                            *)

MaxBonus == 6       \* largest bonus of a step

StepInputs ==
    [attackerRoll : 1..6, defenderRoll : 1..6,
     attackerBonus : 0..MaxBonus, defenderBonus : 0..MaxBonus]

StepToLoser(stepArgument) ==
    IF stepArgument.defenderRoll + stepArgument.defenderBonus
         >= stepArgument.attackerRoll + stepArgument.attackerBonus
    THEN "attacker" ELSE "defender"

\* resolveLegacyBattleStep
ResolveLegacyBattleStep(stepArgument) ==
    LET attackerScore == stepArgument.attackerRoll + stepArgument.attackerBonus
        defenderScore == stepArgument.defenderRoll + stepArgument.defenderBonus
    IN  IF defenderScore >= attackerScore THEN "defender" ELSE "attacker"

StepInit ==
    /\ stepInput \in StepInputs
    /\ stepWinner = None

\* No step is resolved.
StepOff ==
    /\ stepInput = None
    /\ stepWinner = None

StepResolve ==
    /\ stepInput # None
    /\ stepWinner = None
    /\ stepWinner' = [side |-> ResolveLegacyBattleStep(stepInput)]
    /\ UNCHANGED stepInput
    /\ UNCHANGED <<vars, knights, bvars, ovars, hvars, pvars, gvars, jvars>>

---------------------------------------------------------------------------
(* Specifications *)

Next == Invoke \/ Enter \/ Draw \/ Finish \/ Recall \/ Return

\* The round executor, with no battle being resolved.
ExecutorInit == Init /\ BattleOff /\ ValidateOff /\ BoardOff /\ PageOff /\ GameOff
    /\ ProjectOff /\ StepOff

Spec == ExecutorInit /\ [][Next]_allvars

\* One call of the battle resolver, with the executor at rest.
ResolverInit == Init /\ BattleInit /\ ValidateOff /\ BoardOff /\ PageOff /\ GameOff
    /\ ProjectOff /\ StepOff

SpecBattle == ResolverInit /\ [][BattleNext]_allvars

ValidatorInit == Init /\ BattleOff /\ ValidateInit /\ BoardOff /\ PageOff /\ GameOff
    /\ ProjectOff /\ StepOff

\* One call of the order validator.
SpecValidate == ValidatorInit /\ [][Validate]_allvars

BuilderInit == Init /\ BattleOff /\ ValidateOff /\ BoardInit /\ PageOff /\ GameOff
    /\ ProjectOff /\ StepOff

\* One call of the board builder.
SpecBoard == BuilderInit /\ [][BoardNext]_allvars

PlannerInit == Init /\ BattleOff /\ ValidateOff /\ BoardOff /\ PageInit /\ GameOff
    /\ ProjectOff /\ StepOff

\* The game page, receiving events.
SpecPage == PlannerInit /\ [][PageReceive]_allvars

\* The game page over the rounds of the game.
SpecRounds == PlannerInit /\ [][Receive(RoundEvents) \/ PageAdvance]_allvars

\* A game from the submission of orders to their execution.
RefereeInit == Init /\ BattleOff /\ ValidateOff /\ BoardOff /\ PageOff /\ GameInit
    /\ ProjectOff /\ StepOff

SpecGame == RefereeInit /\ [][GameNext]_allvars

\* Battles between alliances of different sizes.
BesiegerInit ==
    /\ Init /\ SiegeInit /\ ValidateOff /\ BoardOff /\ PageOff /\ GameOff
    /\ ProjectOff /\ StepOff

SpecSiege == BesiegerInit /\ [][BattleNext]_allvars

\* The troop counts of the game: a projection of orders, or a battle.
TroopsInit ==
    /\ Init /\ ValidateOff /\ BoardOff /\ PageOff /\ GameOff /\ StepOff
    /\ \/ ProjectInit /\ BattleOff
       \/ ProjectOff /\ BattleInit

TroopsNext == ProjectOrder \/ BattleEnter \/ BattleRound \/ BattleFinish

SpecTroops == TroopsInit /\ [][TroopsNext]_allvars

\* One step of a battle.
UmpireInit ==
    /\ Init /\ BattleOff /\ ValidateOff /\ BoardOff /\ PageOff /\ GameOff
    /\ ProjectOff /\ StepInit

SpecStep == UmpireInit /\ [][StepResolve]_allvars

\* The resolver runs to its end once called.
FairSpecBattle ==
    SpecBattle /\ WF_allvars(BattleNext)

---------------------------------------------------------------------------
(* Properties of the round executor *)

Returned == pc = "returned"
Executed == pc = "returned" /\ result.executed

\* The input's players by value, and the returned players by value.
InputPlayers == PlayerValues(input.players)
ResultPlayers == PlayerValues(result.players)

IsIssued(e) == e.kind = "order_issued"
Issued(list) == SelectSeq(list, IsIssued)

\* The orders of the order_issued events attributed to a nickname, in list order.
RECURSIVE IssuedTo(_, _)
IssuedTo(list, nickname) ==
    IF list = <<>> THEN <<>>
    ELSE LET e == Head(list)
         IN  IF e.kind = "order_issued" /\ e.player = nickname
             THEN <<e.order>> \o IssuedTo(Tail(list), nickname)
             ELSE IssuedTo(Tail(list), nickname)

Ascending(q) == \A i, j \in DOMAIN q : i < j => q[i].orderNumber < q[j].orderNumber

\* A player's orders array after the step.
OrdersAfter(ref) == arrs'[objs[ref].orders]

IsPrefix(a, b) == Len(a) <= Len(b) /\ a = SubSeq(b, 1, Len(a))

\* C1  Readiness gate: when some player of the input is not ready, the call
\* returns executed = false, the input's round, no events, every player's
\* queue and ready flag as in the input, and has drawn no random number.
\* (The executor's players carry no `active` field: every listed player
\* counts, so a not-ready player blocks the round whoever it is.)
C1_ReadinessGate ==
    (Returned /\ \E i \in DOMAIN input.players : ~objs[input.players[i]].ready)
        => /\ result.executed = FALSE
           /\ result.round = input.round
           /\ result.events = <<>>
           /\ ResultPlayers = InputPlayers
           /\ draws = 0

\* Alice ready with one order, Bob not ready with one order, in round 1.
C1_Witness ==
    /\ Returned
    /\ input.round = 1
    /\ Len(input.players) = 2
    /\ InputPlayers[1].ready /\ Len(InputPlayers[1].orders) = 1
    /\ ~InputPlayers[2].ready /\ Len(InputPlayers[2].orders) = 1

\* C2  Round monotonicity: a call returns round + 1 when it executed and the
\* input's round otherwise; the game's round never decreases and moves by
\* exactly one, and only on a successful execution.
C2_RoundMonotonic ==
    [][/\ (pc # "returned" /\ pc' = "returned")
            => result'.round = input.round + (IF result'.executed THEN 1 ELSE 0)
       /\ round' >= round
       /\ round' # round => (round' = round + 1 /\ Executed)]_vars

\* The second successful execution in a row has been stored by the host.
C2_Witness == pc = "idle" /\ round = 2

\* C3  Complete issuance: after a successful execution every returned queue
\* is empty, there are as many order_issued events as orders queued in the
\* input, and each queued order is issued exactly once, under the nickname
\* of the player whose queue held it.
C3_CompleteIssuance ==
    Executed =>
        /\ \A i \in DOMAIN result.players : OrdersOf(result.players[i]) = <<>>
        /\ Len(Issued(result.events)) = SumLen(InputPlayers, Len(InputPlayers))
        /\ \A i \in DOMAIN InputPlayers : \A k \in DOMAIN InputPlayers[i].orders :
             Cardinality({e \in DOMAIN result.events :
                 /\ result.events[e].kind = "order_issued"
                 /\ result.events[e].player = InputPlayers[i].nickname
                 /\ result.events[e].order = InputPlayers[i].orders[k]}) = 1
        /\ \A e \in DOMAIN result.events :
             result.events[e].kind = "order_issued"
                => \E i \in DOMAIN InputPlayers : \E k \in DOMAIN InputPlayers[i].orders :
                     /\ result.events[e].player = InputPlayers[i].nickname
                     /\ result.events[e].order = InputPlayers[i].orders[k]

\* Two players with orders, three orders in all, have been executed.
C3_Witness ==
    /\ Executed
    /\ Len(input.players) = 2
    /\ Len(InputPlayers[1].orders) = 2
    /\ Len(InputPlayers[2].orders) = 1

\* C4  Ready reset: after a successful execution every returned player has
\* ready = false.
C4_ReadyReset ==
    Executed => \A i \in DOMAIN result.players : ~objs[result.players[i]].ready

\* Two players, both ready in the input, one of them without orders.
C4_Witness ==
    /\ Executed
    /\ Len(result.players) = 2
    /\ InputPlayers[1].ready /\ InputPlayers[2].ready
    /\ InputPlayers[1].orders = <<>> /\ InputPlayers[2].orders # <<>>

\* C5  Event ordering: the events of a successful execution end with the
\* one round_advanced event, from the input's round to the next; all events
\* before it are order_issued events of the input's round; and the list only
\* grows at its end while the loop runs, so its order is the order of issue.
C5_EventOrdering ==
    /\ [](Executed =>
            LET ev == result.events
                n  == Len(ev)
            IN  /\ n >= 1
                /\ ev[n] = RoundAdvancedEvent(input.round, input.round + 1)
                /\ \A k \in 1..(n - 1) :
                     ev[k].kind = "order_issued" /\ ev[k].round = input.round)
    /\ [][pc = "loop" => IsPrefix(events, events')]_vars

\* A round 1 execution that issued at least two orders.
C5_Witness ==
    /\ Executed
    /\ input.round = 1
    /\ Len(result.events) >= 3

\* C6 as stated: every pop takes the player's remaining order with the
\* lowest order number, so each player's issued orders ascend and every
\* issued order number is below every order number still queued.
C6_LowestFirst ==
    \A i \in DOMAIN players :
        LET done == IssuedTo(events, objs[players[i]].nickname)
            left == OrdersOf(players[i])
        IN  /\ Ascending(done)
            /\ \A a \in DOMAIN done : \A b \in DOMAIN left :
                 done[a].orderNumber < left[b].orderNumber

\* C6  Per-player order, amended: a pop takes the first element of the
\* player's orders array, so each player's orders are issued in array order
\* (issued orders followed by the remaining queue are the input array); they
\* ascend by order number when the input array ascends.
C6_ArrayOrder ==
    \A i \in DOMAIN players :
        LET done == IssuedTo(events, objs[players[i]].nickname)
            left == OrdersOf(players[i])
        IN  /\ done \o left = InputPlayers[i].orders
            /\ Ascending(InputPlayers[i].orders) => Ascending(done)

\* A player whose array held order 2 before order 1 has had both issued.
C6_Witness ==
    /\ Executed
    /\ \E i \in DOMAIN InputPlayers :
         /\ Len(InputPlayers[i].orders) = 2
         /\ InputPlayers[i].orders[1].orderNumber = 2
         /\ InputPlayers[i].orders[2].orderNumber = 1

\* The executor test's second case: Alice with orders 1 and 2, Bob with
\* order 1, and the script 0, 0.8, 0.8, 0.1.
S2Players ==
    <<[nickname |-> "Alice", ready |-> TRUE,
       orders |-> <<Order("Alice", 1), Order("Alice", 2)>>],
      [nickname |-> "Bob", ready |-> TRUE, orders |-> <<Order("Bob", 1)>>]>>

S2Draws ==
    <<[num |-> 0, den |-> 10], [num |-> 8, den |-> 10],
      [num |-> 8, den |-> 10], [num |-> 1, den |-> 10]>>

\* C7  Scheduling draw: a draw r selects players[floor(r * |players|)] of
\* the full list.  When the selected queue is empty nothing is issued, no
\* queue changes and the loop draws again; otherwise exactly that player's
\* first order is issued.  On the test's case the script issues Alice, Bob,
\* Alice and the loop ends with the fourth draw, not before.
C7_SchedulingDraw ==
    /\ [][(pc = "loop" /\ draws' # draws /\ Len(tape) < MaxTape) =>
            LET r   == tape'[Len(tape')]
                n   == Len(players)
                sel == ((r.num * n) \div r.den) + 1
            IN  /\ sel \in DOMAIN players
                /\ IF OrdersOf(players[sel]) = <<>>
                   THEN /\ events' = events
                        /\ arrs' = arrs
                        /\ pc' = "loop"
                        /\ \E j \in DOMAIN players : OrdersAfter(players[j]) # <<>>
                   ELSE /\ events' = Append(events,
                              IssuedOrderEvent(input.round, objs[players[sel]].nickname,
                                               Head(OrdersOf(players[sel]))))
                        /\ OrdersAfter(players[sel]) = Tail(OrdersOf(players[sel]))
                        /\ \A j \in DOMAIN players :
                             j # sel => OrdersAfter(players[j]) = OrdersOf(players[j])]_vars
    /\ []((pc \in {"loop", "returned"} /\ InputPlayers = S2Players) =>
            /\ (pc = "loop" /\ draws < Len(S2Draws) /\ IsPrefix(tape, S2Draws))
                 => HasPendingOrders
            /\ (draws >= Len(S2Draws) /\ IsPrefix(S2Draws, tape))
                 => /\ draws = Len(S2Draws)
                    /\ ~HasPendingOrders
                    /\ [k \in DOMAIN Issued(events) |-> Issued(events)[k].player]
                         = <<"Alice", "Bob", "Alice">>)

\* The test's case has run on the test's script.
C7_Witness == Executed /\ InputPlayers = S2Players /\ tape = S2Draws

\* C8  Determinism: a second call on the same input with a random source
\* that returns the same values returns the same executed flag, round,
\* players and events.
C8_Deterministic ==
    (Returned /\ prior # None /\ prior.input = InputPlayers) =>
        /\ result.executed = prior.executed
        /\ result.round = prior.round
        /\ ResultPlayers = prior.players
        /\ result.events = prior.events

\* A repeated execution that needed at least three draws for two orders.
C8_Witness ==
    /\ Executed
    /\ prior # None
    /\ draws >= 3
    /\ Len(result.events) >= 3

\* The executor runs to its end once called: each of its statements is
\* executed when it is reached.  Which values random() returns is not
\* constrained.
FairSpec == Spec /\ WF_vars(Enter) /\ WF_vars(Draw) /\ WF_vars(Finish)

\* C9  Bounded scheduling: once all players are ready the scheduling loop
\* ends, whatever values in [0, 1) the random source returns.
C9_LoopTerminates == (pc = "loop") ~> (pc = "returned")

\* C10  Input immutability: no statement of the executor changes a ready
\* flag or an orders array of the input, and the returned players and their
\* orders arrays are objects other than the input's.
C10_InputImmutable ==
    /\ [][(pc = "called" \/ pc = "loop") => InputPlayers' = InputPlayers]_vars
    /\ [](Returned =>
            \A i \in DOMAIN result.players : \A j \in DOMAIN input.players :
                /\ result.players[i] # input.players[j]
                /\ objs[result.players[i]].orders # objs[input.players[j]].orders)

\* An execution that issued two orders and reset the flags has returned: the
\* input still has its orders and its ready flags.
C10_Witness ==
    /\ Executed
    /\ Len(result.events) >= 3
    /\ \E j \in DOMAIN InputPlayers :
         InputPlayers[j].ready /\ Len(InputPlayers[j].orders) >= 2

\* C11  Attack dispatch: in the events of an executed round, the
\* order_issued event of an attack order is followed at once by the
\* battle_fought event of the battle it starts.
C11_AttackDispatch ==
    Executed =>
        \A i \in DOMAIN result.events :
            (IsIssued(result.events[i]) /\ result.events[i].order.type = "attack")
                => /\ i < Len(result.events)
                   /\ result.events[i + 1].kind = "battle_fought"

\* C12  Projection reset: when a round has been executed, every knight's
\* projected positions are three times its location.
C12_ProjectionReset ==
    Executed =>
        \A k \in DOMAIN knights :
            knights[k].projectedPositions =
                Some(<<knights[k].location, knights[k].location, knights[k].location>>)

---------------------------------------------------------------------------
(* Properties of the battle resolver *)

Resolved == bpc = "done"

Whole(t) == [num |-> t, den |-> 1]

\* The input's troop counts are integers that are not negative.
WholeTroops ==
    /\ battle.attackerTroops.den = 1 /\ battle.attackerTroops.num >= 0
    /\ battle.defenderTroops.den = 1 /\ battle.defenderTroops.num >= 0

\* The troop counts the battle starts with.
StartAttacker == Max(0, battle.attackerTroops.num \div battle.attackerTroops.den)
StartDefender == Max(0, battle.defenderTroops.num \div battle.defenderTroops.den)

\* The troop counts before battle round i.
AttackerBefore(i) == IF i = 1 THEN StartAttacker ELSE rounds[i - 1].attackerTroopsAfter
DefenderBefore(i) == IF i = 1 THEN StartDefender ELSE rounds[i - 1].defenderTroopsAfter

\* C13  Ties go to the defender: in every battle round the attacker is the
\* loser, and the side that loses a troop, exactly if the defender's score is
\* at least the attacker's; otherwise the defender is.
C13_TieToDefender ==
    \A i \in DOMAIN rounds :
        LET r == rounds[i]
        IN  IF r.defenderScore >= r.attackerScore
            THEN /\ r.loser = "attacker"
                 /\ r.attackerTroopsAfter < AttackerBefore(i)
                 /\ r.defenderTroopsAfter = DefenderBefore(i)
            ELSE /\ r.loser = "defender"
                 /\ r.defenderTroopsAfter < DefenderBefore(i)
                 /\ r.attackerTroopsAfter = AttackerBefore(i)

\* A battle whose only round was a tie has been resolved: the defender won.
C13_Witness ==
    /\ Resolved
    /\ Len(rounds) = 1
    /\ rounds[1].attackerScore = rounds[1].defenderScore
    /\ outcome.winnerNickname = battle.defenderNickname

\* C14  One troop per round: in every battle round the recorded loser loses
\* exactly one troop and the other side none; the record's troop counts are
\* the counts right after that loss; no recorded or final count is negative.
C14_OneTroopPerRound ==
    /\ \A i \in DOMAIN rounds :
        LET r == rounds[i]
        IN  /\ r.loser \in {"attacker", "defender"}
            /\ r.loser = "attacker" =>
                 /\ r.attackerTroopsAfter = AttackerBefore(i) - 1
                 /\ r.defenderTroopsAfter = DefenderBefore(i)
            /\ r.loser = "defender" =>
                 /\ r.defenderTroopsAfter = DefenderBefore(i) - 1
                 /\ r.attackerTroopsAfter = AttackerBefore(i)
            /\ r.attackerTroopsAfter >= 0
            /\ r.defenderTroopsAfter >= 0
    /\ rounds # <<>> =>
         /\ rounds[Len(rounds)].attackerTroopsAfter = attackerTroops
         /\ rounds[Len(rounds)].defenderTroopsAfter = defenderTroops
    /\ attackerTroops >= 0
    /\ defenderTroops >= 0
    /\ Resolved =>
         /\ outcome.attackerTroopsRemaining >= 0
         /\ outcome.defenderTroopsRemaining >= 0

\* A battle in which each side lost a troop has been resolved.
C14_Witness ==
    /\ Resolved
    /\ \E i \in DOMAIN rounds : rounds[i].loser = "attacker"
    /\ \E i \in DOMAIN rounds : rounds[i].loser = "defender"

\* C15  Battle termination: with whole troop counts A >= 0 and D >= 0 the
\* resolver returns; it has then fought until a side had no troops and not
\* beyond; it fights at most A + D - 1 rounds when both start positive, and
\* as many rounds as troops were lost.
C15_Terminates ==
    /\ [](WholeTroops /\ bpc # "called" =>
            /\ Len(rounds) = (StartAttacker - attackerTroops)
                             + (StartDefender - defenderTroops)
            /\ (StartAttacker > 0 /\ StartDefender > 0) =>
                  Len(rounds) <= StartAttacker + StartDefender - 1
            /\ \A i \in DOMAIN rounds :
                  i < Len(rounds) =>
                     /\ rounds[i].attackerTroopsAfter > 0
                     /\ rounds[i].defenderTroopsAfter > 0
            /\ Resolved => (attackerTroops = 0 \/ defenderTroops = 0))
    /\ ((WholeTroops /\ bpc = "called") ~> Resolved)

\* A battle of MaxTroops against MaxTroops has taken the largest number of
\* rounds.
C15_Witness ==
    /\ Resolved
    /\ battle.attackerTroops = Whole(MaxTroops)
    /\ battle.defenderTroops = Whole(MaxTroops)
    /\ Len(rounds) = MaxTroops + MaxTroops - 1

WinnerRemaining ==
    IF outcome.winnerNickname = battle.attackerNickname
    THEN outcome.attackerTroopsRemaining ELSE outcome.defenderTroopsRemaining

LoserRemaining ==
    IF outcome.winnerNickname = battle.attackerNickname
    THEN outcome.defenderTroopsRemaining ELSE outcome.attackerTroopsRemaining

LosingSideKnights ==
    IF outcome.winnerNickname = battle.attackerNickname
    THEN battle.defenderKnightsOnHex ELSE battle.attackerKnightsOnHex

\* C16  Battle outcome, as claimed: the winner has more than 0 troops
\* remaining, the loser has 0, the eliminated knights are the losing side's
\* knights on the hex, and the new owner is the winner.
C16_Outcome ==
    Resolved =>
        /\ WinnerRemaining > 0
        /\ LoserRemaining = 0
        /\ outcome.eliminatedKnightNames = LosingSideKnights
        /\ outcome.newOwnerNickname = outcome.winnerNickname

\* C16  Battle outcome, amended: the winner has more than 0 troops remaining
\* unless neither side has any, in which case the defender is the winner; the
\* loser has 0 troops remaining, the eliminated knights are the losing side's
\* knights on the hex, and the new owner is the winner.
C16_OutcomeUnlessEmpty ==
    Resolved =>
        /\ \/ WinnerRemaining > 0
           \/ /\ outcome.attackerTroopsRemaining = 0
              /\ outcome.defenderTroopsRemaining = 0
              /\ outcome.winnerNickname = battle.defenderNickname
        /\ outcome.winnerNickname \in {battle.attackerNickname, battle.defenderNickname}
        /\ outcome.loserNickname \in {battle.attackerNickname, battle.defenderNickname}
        /\ outcome.loserNickname # outcome.winnerNickname
        /\ LoserRemaining = 0
        /\ outcome.eliminatedKnightNames = LosingSideKnights
        /\ outcome.newOwnerNickname = outcome.winnerNickname

\* The attacker has won a fought battle against two knights: both are
\* eliminated and the attacker's knight is not.
C16_Witness ==
    /\ Resolved
    /\ rounds # <<>>
    /\ outcome.winnerNickname = battle.attackerNickname
    /\ outcome.eliminatedKnightNames = <<"Sir Bob 0", "Sir Bob 1">>
    /\ battle.attackerKnightsOnHex = <<"Sir Alice 0">>

\* C17  Zero-troop battle: a resolved call has a result; when both sides
\* start with 0 troops the defender wins, no round is fought, no die is
\* rolled and the new owner is the defender.
C17_ZeroTroops ==
    Resolved =>
        /\ outcome # None
        /\ (battle.attackerTroops = Whole(0) /\ battle.defenderTroops = Whole(0)) =>
              /\ outcome.winnerNickname = battle.defenderNickname
              /\ outcome.loserNickname = battle.attackerNickname
              /\ outcome.rounds = <<>>
              /\ rolled = <<>>
              /\ outcome.newOwnerNickname = battle.defenderNickname

\* A battle of 0 against 0 troops has been resolved.
C17_Witness ==
    /\ Resolved
    /\ battle.attackerTroops = Whole(0)
    /\ battle.defenderTroops = Whole(0)

\* The example of the resolver's test: troops 1/1, alliance sizes 3/1, rolls 1 and 2.
AllianceExample ==
    /\ battle.attackerTroops = Whole(1)
    /\ battle.defenderTroops = Whole(1)
    /\ battle.attackerAllianceMembers = 3
    /\ battle.defenderAllianceMembers = 1
    /\ Len(rolled) >= 2
    /\ rolled[1] = 1
    /\ rolled[2] = 2

\* C18  Alliance bonus: in every battle round each side's score is its roll
\* plus its number of alliance members; with troops 1/1, alliance sizes 3/1
\* and rolls (1, 2) the scores are 4 and 3 and the attacker wins in one round.
C18_AllianceBonus ==
    /\ \A i \in DOMAIN rounds :
        /\ rounds[i].attackerScore =
              rounds[i].attackerRoll + battle.attackerAllianceMembers
        /\ rounds[i].defenderScore =
              rounds[i].defenderRoll + battle.defenderAllianceMembers
        /\ rounds[i].attackerRoll = rolled[2 * i - 1]
        /\ rounds[i].defenderRoll = rolled[2 * i]
    /\ AllianceExample =>
        /\ rounds[1].attackerScore = 4
        /\ rounds[1].defenderScore = 3
        /\ ~BothHaveTroops(attackerTroops, defenderTroops)
        /\ Resolved =>
             /\ Len(outcome.rounds) = 1
             /\ outcome.winnerNickname = battle.attackerNickname

\* The example has been resolved.
C18_Witness == Resolved /\ AllianceExample

---------------------------------------------------------------------------
(* Properties of the order validator *)

Validated == vpc = "returned"

\* The checks in their normative order, by error code.
CheckOrder ==
    <<"INVALID_ORDER_NUMBER", "PLAYER_NOT_FOUND", "KNIGHT_NOT_FOUND",
      "KNIGHT_NOT_OWNED", "KNIGHT_DEAD", "HEX_NOT_FOUND", "FROM_MISMATCH",
      "FORTIFY_DESTINATION_INVALID", "PROMOTE_DESTINATION_INVALID",
      "PROMOTE_INSUFFICIENT_TROOPS", "NOT_NEIGHBOR", "INVALID_TROOP_COUNT",
      "INSUFFICIENT_TROOPS", "ATTACK_TARGET_NOT_ENEMY">>

\* What each check reads, where the state has it.
OwnerKnown(o, st) == o.ownerNickname \in DOMAIN st.playersByNickname

NamedKnights(o, st) ==
    IF OwnerKnown(o, st)
    THEN LET ks == st.playersByNickname[o.ownerNickname].knights
         IN  {ks[i] : i \in {j \in DOMAIN ks : ks[j].name = o.knightName}}
    ELSE {}

HexesKnown(o, st) ==
    o.from \in DOMAIN st.hexesByIndex /\ o.to \in DOMAIN st.hexesByIndex

OwnTroopsOnFrom(o, st) ==
    LET by == st.hexesByIndex[o.from].troopsByPlayer
    IN  IF o.ownerNickname \in DOMAIN by THEN by[o.ownerNickname] ELSE 0

\* The knight's projected position for an order slot: its location for
\* order 1; for order k in {2, 3} its position after orders 1..k-1, which is
\* element k-1 of the projected positions (the location when none are kept).
ExpectedFrom(knight, k) ==
    IF k = 1 \/ knight.projectedPositions = Absent THEN knight.location
    ELSE knight.projectedPositions[1][k - 1]

\* Check `code` fails for order o in state st, taken by itself.
Fails(code, o, st) ==
    CASE code = "INVALID_ORDER_NUMBER" -> ~(1 <= o.orderNumber /\ o.orderNumber <= 3)
      [] code = "PLAYER_NOT_FOUND" -> ~OwnerKnown(o, st)
      [] code = "KNIGHT_NOT_FOUND" -> OwnerKnown(o, st) /\ NamedKnights(o, st) = {}
      [] code = "KNIGHT_NOT_OWNED" ->
            \E k \in NamedKnights(o, st) : k.ownerNickname # o.ownerNickname
      [] code = "KNIGHT_DEAD" ->
            \E k \in NamedKnights(o, st) : k.alive = Some(FALSE)
      [] code = "HEX_NOT_FOUND" -> ~HexesKnown(o, st)
      [] code = "FROM_MISMATCH" ->
            /\ o.orderNumber \in 1..3
            /\ \E k \in NamedKnights(o, st) : o.from # ExpectedFrom(k, o.orderNumber)
      [] code = "FORTIFY_DESTINATION_INVALID" -> o.type = "fortify" /\ o.to # o.from
      [] code = "PROMOTE_DESTINATION_INVALID" -> o.type = "promote" /\ o.to # o.from
      [] code = "PROMOTE_INSUFFICIENT_TROOPS" ->
            /\ o.type = "promote"
            /\ HexesKnown(o, st)
            /\ OwnTroopsOnFrom(o, st) < 100
      [] code = "NOT_NEIGHBOR" ->
            /\ o.type \in {"move", "attack"}
            /\ HexesKnown(o, st)
            /\ \A i \in DOMAIN st.hexesByIndex[o.from].neighbors :
                  st.hexesByIndex[o.from].neighbors[i] # o.to
      [] code = "INVALID_TROOP_COUNT" -> o.type \in {"move", "attack"} /\ ~(o.troops > 0)
      [] code = "INSUFFICIENT_TROOPS" ->
            /\ o.type \in {"move", "attack"}
            /\ HexesKnown(o, st)
            /\ OwnTroopsOnFrom(o, st) < o.troops
      [] code = "ATTACK_TARGET_NOT_ENEMY" ->
            /\ o.type = "attack"
            /\ HexesKnown(o, st)
            /\ st.hexesByIndex[o.to].ownerNickname
                  \in {Absent, Some(o.ownerNickname)}

FailingChecks(o, st) == {i \in DOMAIN CheckOrder : Fails(CheckOrder[i], o, st)}

FirstFailing(o, st) ==
    CHOOSE i \in FailingChecks(o, st) : \A j \in FailingChecks(o, st) : i <= j

\* C19  Normative check order: the validator returns the error code of the
\* first failing check of the order's checks, and ok, with the order, exactly
\* when no check fails.
C19_CheckOrder ==
    Validated =>
        IF FailingChecks(request.order, request.state) = {}
        THEN verdict.ok /\ verdict.normalized = request.order
        ELSE /\ ~verdict.ok
             /\ verdict.code = CheckOrder[FirstFailing(request.order, request.state)]

\* A layered failure has been decided: a move to a hex that is not a
\* neighbour, with no troops, by a known knight from its hex.
C19_Witness ==
    /\ Validated
    /\ Fails("NOT_NEIGHBOR", request.order, request.state)
    /\ Fails("INVALID_TROOP_COUNT", request.order, request.state)
    /\ verdict = ValidationFail("NOT_NEIGHBOR")

\* No check before the source check fails.
ReachesFromCheck ==
    \A i \in 1..6 : ~Fails(CheckOrder[i], request.order, request.state)

\* The knight an order names.
OrderedKnight == CHOOSE k \in NamedKnights(request.order, request.state) : TRUE

\* Order 2 from hex 24 for the knight at 23 whose projected positions are
\* [23, 24, 24].
FromExample ==
    /\ ReachesFromCheck
    /\ OrderedKnight.location = 23
    /\ OrderedKnight.projectedPositions = Some(<<23, 24, 24>>)
    /\ request.order.orderNumber = 2
    /\ request.order.from = 24

\* C20  Projected source: an order that reaches the source check is
\* rejected with FROM_MISMATCH exactly if its from differs from the knight's
\* projected position for its slot; order 2 from hex 24 is rejected for the
\* knight at 23 with projected positions [23, 24, 24].
C20_ProjectedSource ==
    (Validated /\ ReachesFromCheck) =>
        /\ verdict = ValidationFail("FROM_MISMATCH")
              <=> request.order.from #
                     ExpectedFrom(OrderedKnight, request.order.orderNumber)
        /\ FromExample => verdict = ValidationFail("FROM_MISMATCH")

\* Order 3 from hex 24, where the knight is after its orders 1 and 2, has
\* passed the source check.
C20_Witness ==
    /\ Validated
    /\ ReachesFromCheck
    /\ request.order.orderNumber = 3
    /\ request.order.from = 24
    /\ OrderedKnight.location = 23
    /\ verdict # ValidationFail("FROM_MISMATCH")

\* The rejected order of the example.
C20_WitnessExample == Validated /\ FromExample

ReachesTargetCheck ==
    \A i \in 1..13 : ~Fails(CheckOrder[i], request.order, request.state)

DestinationOwner == request.state.hexesByIndex[request.order.to].ownerNickname

\* C22  Attack target: an attack that passes every earlier check is rejected
\* with ATTACK_TARGET_NOT_ENEMY when the destination has no owner or is
\* owned by the order's owner, and accepted when another player owns it.
C22_AttackTarget ==
    (Validated /\ request.order.type = "attack" /\ ReachesTargetCheck) =>
        IF DestinationOwner = Absent
           \/ DestinationOwner = Some(request.order.ownerNickname)
        THEN verdict = ValidationFail("ATTACK_TARGET_NOT_ENEMY")
        ELSE verdict = ValidationOk(request.order)

\* An attack on a hex of the attacker's own has been rejected.
C22_Witness ==
    /\ Validated
    /\ request.order.type = "attack"
    /\ ReachesTargetCheck
    /\ DestinationOwner = Some(request.order.ownerNickname)
    /\ ~verdict.ok

\* C30  Move into enemy territory: a move that passes checks 1-11 is
\* accepted whoever owns the destination, and no order other than an attack
\* is rejected for the owner of its destination.
C30_MoveAnyOwner ==
    Validated =>
        /\ (request.order.type = "move" /\ ReachesTargetCheck) => verdict.ok
        /\ request.order.type # "attack" =>
              verdict # ValidationFail("ATTACK_TARGET_NOT_ENEMY")

\* A move into a hex owned by another player has been accepted.
C30_Witness ==
    /\ Validated
    /\ request.order.type = "move"
    /\ verdict.ok
    /\ DestinationOwner = Some("Bob")
    /\ request.order.ownerNickname = "Alice"

---------------------------------------------------------------------------
(* Properties of the board builder *)

Built == hpc = "returned"

\* Hex a lists hex b among its neighbours.
Lists(a, b) ==
    \E k \in DOMAIN board.hexes[a].neighbors : board.hexes[a].neighbors[k] = Some(b)

\* C26  Board symmetry: in the built board, if B is a non-null entry of
\* A.neighbors then A is an entry of B.neighbors.
C26_BoardSymmetry ==
    Built =>
        \A a \in DOMAIN board.hexes : \A b \in DOMAIN board.hexes :
            Lists(a, b) => Lists(b, a)

\* The board is built; hex 23 has the six neighbours of the validator's
\* fixture, and hex 24 lists hex 23.
C26_Witness ==
    /\ Built
    /\ board.hexes[23].neighbors =
          <<Some(14), Some(24), Some(34), Some(33), Some(22), Some(13)>>
    /\ Lists(24, 23)

HexesOfType(type) == {i \in DOMAIN board.hexes : board.hexes[i].type = type}

\* C27  Board dimensions: width 10, height 11, the 110 hexes 0..109 each
\* with its own index; the KEEPs are 23, 26, 52, 58, 83, 86, the CASTLE is
\* 55, and 35, 46, 75, 63, 43, 66 are LAND.
C27_BoardDimensions ==
    Built =>
        /\ board.width = 10
        /\ board.height = 11
        /\ DOMAIN board.hexes = 0..109
        /\ Cardinality(DOMAIN board.hexes) = 110
        /\ \A i \in DOMAIN board.hexes : board.hexes[i].index = i
        /\ HexesOfType("KEEP") = {23, 26, 52, 58, 83, 86}
        /\ HexesOfType("CASTLE") = {55}
        /\ {35, 46, 75, 63, 43, 66} \subseteq HexesOfType("LAND")

\* The board is built, with its castle and its last hex.
C27_Witness ==
    /\ Built
    /\ board.hexes[55].type = "CASTLE"
    /\ board.hexes[109].index = 109

\* The six offsets of a row, by its parity.
RowOffsets(y) ==
    IF y % 2 = 1
    THEN <<<<0, -1>>, <<1, 0>>, <<0, 1>>, <<-1, 1>>, <<-1, 0>>, <<-1, -1>>>>
    ELSE <<<<1, -1>>, <<1, 0>>, <<1, 1>>, <<0, 1>>, <<-1, 0>>, <<0, -1>>>>

\* The cell at offset k of the hex at index i.
OffsetCell(i, k) ==
    LET x == i % 10
        y == i \div 10
    IN  <<x + RowOffsets(y)[k][1], y + RowOffsets(y)[k][2]>>

OnGrid(cell) == cell[1] \in 0..9 /\ cell[2] \in 0..10

\* The grid neighbours of a hex.
GridNeighbors(i) ==
    {OffsetCell(i, k)[1] + 10 * OffsetCell(i, k)[2] :
        k \in {j \in 1..6 : OnGrid(OffsetCell(i, j))}}

\* The staged typing: all BLANK; KEEPs and CASTLE marked; their BLANK
\* neighbours promoted to LAND; the overrides forced to LAND, KEEPs and
\* CASTLE excepted.
Marked ==
    [i \in 0..109 |->
        IF i \in {23, 26, 52, 58, 83, 86} THEN "KEEP"
        ELSE IF i = 55 THEN "CASTLE" ELSE "BLANK"]

Promotion ==
    [i \in 0..109 |->
        IF /\ Marked[i] = "BLANK"
           /\ \E j \in 0..109 : Marked[j] \in {"KEEP", "CASTLE"} /\ i \in GridNeighbors(j)
        THEN "LAND" ELSE Marked[i]]

Overridden ==
    [i \in 0..109 |->
        IF i \in {35, 46, 75, 63, 43, 66} /\ Promotion[i] \notin {"KEEP", "CASTLE"}
        THEN "LAND" ELSE Promotion[i]]

\* C28  Board typing: the built board gives every hex the type of the
\* staged typing; every neighbour of a KEEP or CASTLE that is not one itself
\* is LAND, the overrides are LAND, the KEEPs and the CASTLE are kept, and
\* every other hex is BLANK.
C28_StagedTyping ==
    Built =>
        \A i \in DOMAIN board.hexes :
            LET type == board.hexes[i].type
                stronghold == i \in {23, 26, 52, 58, 83, 86, 55}
                besideStronghold ==
                    \E j \in {23, 26, 52, 58, 83, 86, 55} : Lists(j, i)
            IN  /\ type = Overridden[i]
                /\ stronghold => type \in {"KEEP", "CASTLE"}
                /\ (~stronghold /\ besideStronghold) => type = "LAND"
                /\ i \in {35, 46, 75, 63, 43, 66} => type = "LAND"
                /\ (~stronghold /\ ~besideStronghold
                      /\ i \notin {35, 46, 75, 63, 43, 66}) => type = "BLANK"

\* The board is built: a neighbour of the castle and an override are LAND,
\* a corner is BLANK.
C28_Witness ==
    /\ Built
    /\ board.hexes[54].type = "LAND"
    /\ board.hexes[35].type = "LAND"
    /\ board.hexes[0].type = "BLANK"

\* C29  Neighbor computation: the neighbours computed for a hex are six
\* entries in the offset order of its row's parity; an entry is null exactly
\* when its cell is off the 10x11 grid, and otherwise is the index x + 10*y
\* of its cell, in 0..109 and not the hex itself.
C29_Neighbors ==
    \A i \in DOMAIN hexes :
        i < cursor =>
            /\ DOMAIN hexes[i].neighbors = 1..6
            /\ \A k \in 1..6 :
                LET cell == OffsetCell(i, k)
                    entry == hexes[i].neighbors[k]
                IN  IF OnGrid(cell)
                    THEN /\ entry = Some(cell[1] + 10 * cell[2])
                         /\ entry[1] \in 0..109
                         /\ entry[1] # i
                    ELSE entry = Absent

\* The neighbours of the corner hexes 0 (even row) and of hex 19 (odd row)
\* have been computed.
C29_Witness ==
    /\ cursor > 19
    /\ hexes[0].neighbors = <<Absent, Some(1), Some(11), Some(10), Absent, Absent>>
    /\ hexes[19].neighbors = <<Some(9), Absent, Some(29), Some(28), Some(18), Some(8)>>

---------------------------------------------------------------------------
(* Properties of the game page's planned orders *)

\* The slots a queue holds, and the order at a slot.
Slots(queue) == {queue[i].key : i \in DOMAIN queue}
OrderAt(queue, slot) == (CHOOSE entry \in Members(queue) : entry.key = slot).value

\* An event is the user's submission, in the current round, of an order the
\* page takes: its slot is 1, 2 or 3 and a move or attack has troops.
IsSubmission(event) ==
    /\ event.event_type = "command.received"
    /\ event.caused_by = Some("u1")
    /\ event.payload.round = Num(currentRound)
    /\ event.payload.commandType = Text("order.submit")
    /\ event.payload.payload.tag = "object"
    /\ event.payload.payload.orderNumber \in {Num(1), Num(2), Num(3)}
    /\ \/ event.payload.payload.actionType \in {Text("fortify"), Text("promote")}
       \/ /\ event.payload.payload.troopCount.tag = "number"
          /\ event.payload.payload.troopCount.den = 1
          /\ event.payload.payload.troopCount.num > 0

SubmittedSlot(event) == event.payload.payload.orderNumber.num

\* C24  Overwrite rule: when an order for slot n is submitted, the queue
\* then holds it at slot n, holds no order at a slot greater than n, and holds
\* at the slots less than n the orders it held before.
C24_Overwrite ==
    [][(gameEvents' # gameEvents /\ IsSubmission(Head(gameEvents'))) =>
          LET n == SubmittedSlot(Head(gameEvents'))
          IN  /\ n \in Slots(issuedOrders')
              /\ OrderAt(issuedOrders', n).orderNumber = n
              /\ OrderAt(issuedOrders', n).toHexId =
                    Head(gameEvents').payload.payload.toHexId.num
              /\ \A k \in Slots(issuedOrders') : k <= n
              /\ \A k \in 1..(n - 1) :
                    /\ k \in Slots(issuedOrders') <=> k \in Slots(issuedOrders)
                    /\ k \in Slots(issuedOrders) =>
                          OrderAt(issuedOrders', k) = OrderAt(issuedOrders, k)
       ]_allvars

\* C25  Order queue bound: whatever events have arrived, the queue holds at
\* most 3 orders, each at the slot of its order number, which is 1, 2 or 3,
\* and no two at the same slot.
C25_QueueBound ==
    /\ Len(issuedOrders) <= 3
    /\ \A i \in DOMAIN issuedOrders :
        /\ issuedOrders[i].key \in {1, 2, 3}
        /\ issuedOrders[i].value.orderNumber = issuedOrders[i].key
        /\ \A j \in DOMAIN issuedOrders :
              issuedOrders[i].key = issuedOrders[j].key => i = j

\* With orders at the three slots, a payload for slot 4 and then one for
\* slot 3 have arrived: the queue still holds three orders.
C25_Witness ==
    /\ Len(gameEvents) = 5
    /\ gameEvents[2].payload.payload.tag = "object"
    /\ gameEvents[2].payload.payload.orderNumber = Num(4)
    /\ IsSubmission(Head(gameEvents))
    /\ SubmittedSlot(Head(gameEvents)) = 3
    /\ Len(issuedOrders) = 3

---------------------------------------------------------------------------
(* Properties of a game *)

---------------------------------------------------------------------------
(* Further properties of the battle resolver *)

\* C33  Die consumption: each battle round consumes exactly two die rolls,
\* the attacker's first and the defender's second: after n rounds the die
\* has been rolled 2n times, the rolls 2i-1 and 2i being the attacker's and
\* the defender's of round i; a battle in which a side starts with 0 troops
\* rolls no die.
C33_DieConsumption ==
    /\ Len(rolled) = 2 * Len(rounds)
    /\ \A i \in DOMAIN rounds :
        /\ rounds[i].attackerRoll = rolled[2 * i - 1]
        /\ rounds[i].defenderRoll = rolled[2 * i]
    /\ (Resolved /\ (StartAttacker = 0 \/ StartDefender = 0)) => rolled = <<>>

\* A battle of two rounds has rolled 1, 6, 2, 1 in this order.
C33_Witness ==
    /\ Resolved
    /\ Len(rounds) = 2
    /\ rolled = <<1, 6, 2, 1>>

---------------------------------------------------------------------------
(* Further properties of the round executor *)

\* The call has returned for an input whose players are all ready and have
\* no queued order.
EmptyRound ==
    /\ Returned
    /\ \A i \in DOMAIN InputPlayers :
          InputPlayers[i].ready /\ InputPlayers[i].orders = <<>>

\* C35  Empty round: when all players are ready and none has a queued order,
\* also when there is no player, the call draws no random number and returns
\* executed = true, round + 1 and the round_advanced event as its only event.
C35_EmptyRound ==
    EmptyRound =>
        /\ draws = 0
        /\ result.executed
        /\ result.round = input.round + 1
        /\ result.events = <<[kind |-> "round_advanced",
                              fromRound |-> input.round,
                              toRound |-> input.round + 1]>>

\* The call has returned for the empty player list in round 1.
C35_Witness ==
    /\ EmptyRound
    /\ input.players = <<>>
    /\ input.round = 1

\* The interleavings of the players' queues that keep each queue's order.
RECURSIVE Interleavings(_)
Interleavings(queues) ==
    IF \A i \in DOMAIN queues : queues[i].orders = <<>> THEN {<<>>}
    ELSE UNION {
        {<<[player |-> queues[i].nickname, order |-> Head(queues[i].orders)]>> \o run :
            run \in Interleavings([queues EXCEPT ![i].orders = Tail(@)])}
        : i \in {j \in DOMAIN queues : queues[j].orders # <<>>}}

\* The issued orders of an event list, each with its player.
IssuedRun(list) ==
    LET issued == Issued(list)
    IN  [i \in DOMAIN issued |-> [player |-> issued[i].player, order |-> issued[i].order]]

\* The orders of a run that are a player's, in the run's order.
OrdersIn(run, nickname) ==
    LET own == SelectSeq(run, LAMBDA step : step.player = nickname)
    IN  [i \in DOMAIN own |-> own[i].order]

\* A run is an interleaving of the queues: what it holds of each player is
\* that player's queue, and it holds nothing else.
IsInterleaving(run, queues) ==
    /\ \A i \in DOMAIN queues : OrdersIn(run, queues[i].nickname) = queues[i].orders
    /\ \A k \in DOMAIN run : \E i \in DOMAIN queues : run[k].player = queues[i].nickname

\* C34  Reachable interleavings: with all players ready, the sequences of
\* order_issued events the executor can produce over all random sources
\* are exactly the interleavings of the players' queues that keep each
\* player's queue order, and every executed call has issued one of them.
C34_Interleavings ==
    /\ (pc = "called" /\ \A i \in DOMAIN InputPlayers : InputPlayers[i].ready)
          => /\ IssueRuns(InputPlayers) = Interleavings(InputPlayers)
             /\ \A run \in Interleavings(InputPlayers) : IsInterleaving(run, InputPlayers)
    /\ Executed => IsInterleaving(IssuedRun(result.events), InputPlayers)

\* Alice's two orders have been issued with Bob's order between them.
C34_Witness ==
    /\ Executed
    /\ Len(InputPlayers) = 2
    /\ Len(InputPlayers[1].orders) = 2
    /\ Len(InputPlayers[2].orders) = 1
    /\ IssuedRun(result.events) =
          <<[player |-> "Alice", order |-> InputPlayers[1].orders[1]],
            [player |-> "Bob", order |-> InputPlayers[2].orders[1]],
            [player |-> "Alice", order |-> InputPlayers[1].orders[2]]>>

---------------------------------------------------------------------------
(* Properties of the troop counts *)

\* C31  Troop non-negativity: from projected hexes whose troop counts are
\* not negative, after any calls of applyProjectedOrderMove (also with
\* orders that ask for more troops than the source hex has) every hex's
\* troop count is at least 0; and in and after any battle both sides'
\* troop counts are at least 0.
C31_TroopsNonNegative ==
    /\ \A h \in DOMAIN projected : projected[h].troopCount >= 0
    /\ attackerTroops >= 0 /\ defenderTroops >= 0
    /\ \A i \in DOMAIN rounds :
          rounds[i].attackerTroopsAfter >= 0 /\ rounds[i].defenderTroopsAfter >= 0
    /\ Resolved =>
          outcome.attackerTroopsRemaining >= 0 /\ outcome.defenderTroopsRemaining >= 0

\* An attack with 60 troops from hex 23, which has 50, on the 50 troops of
\* another player on hex 24: both hexes are left with no troops.
C31_Witness ==
    /\ projectedCalls = 1
    /\ projectedOrder =
          [order |-> [orderNumber |-> 1, fromHexId |-> 23, toHexId |-> 24,
                      actionType |-> "attack", troopCount |-> Some(60)],
           playerUserId |-> Some(CurrentUserId)]
    /\ projected[23].troopCount = 0
    /\ projected[24].troopCount = 0
    /\ projected[24].ownerUserId = Absent

\* The troops on a hex of the Map; a hex the Map lacks has none.
TroopsOn(state, hexId) == IF hexId \in DOMAIN state THEN state[hexId].troopCount ELSE 0

\* The step is a call with a move of k > 0 troops by the user from a hex the
\* user owns.
MoveCalled ==
    /\ projectedCalls' = projectedCalls + 1
    /\ projectedOrder'.playerUserId = Some(CurrentUserId)
    /\ projectedOrder'.order.actionType = "move"
    /\ projectedOrder'.order.troopCount # Absent
    /\ projectedOrder'.order.fromHexId \in DOMAIN projected
    /\ projected[projectedOrder'.order.fromHexId].ownerUserId = Some(CurrentUserId)

\* No hex but the order's two has changed.
OthersUnchanged ==
    /\ DOMAIN projected' \subseteq
          DOMAIN projected \cup {projectedOrder'.order.fromHexId, projectedOrder'.order.toHexId}
    /\ \A h \in DOMAIN projected :
          h \notin {projectedOrder'.order.fromHexId, projectedOrder'.order.toHexId}
            => projected'[h] = projected[h]

\* C32  Move conserves troops: a Move of k troops from a hex owned by the
\* mover decreases the troops on from by k and increases the troops on to by
\* k, and no other hex changes.
C32_MoveByK ==
    [][MoveCalled =>
          LET from == projectedOrder'.order.fromHexId
              to == projectedOrder'.order.toHexId
              k == projectedOrder'.order.troopCount[1]
          IN  /\ TroopsOn(projected', from) = TroopsOn(projected, from) - k
              /\ TroopsOn(projected', to) = TroopsOn(projected, to) + k
              /\ OthersUnchanged
       ]_allvars

\* C32  amended: a Move of k troops from a hex owned by the mover to another
\* hex moves m troops, the lesser of k and the troops on from: the troops on
\* from decrease by m, those on to increase by m, their sum is unchanged and
\* no other hex changes; a Move to the same hex changes no troop count.
C32_MoveConserves ==
    [][MoveCalled =>
          LET from == projectedOrder'.order.fromHexId
              to == projectedOrder'.order.toHexId
              k == projectedOrder'.order.troopCount[1]
              m == IF k <= TroopsOn(projected, from) THEN k ELSE TroopsOn(projected, from)
          IN  /\ from # to =>
                    /\ TroopsOn(projected', from) = TroopsOn(projected, from) - m
                    /\ TroopsOn(projected', to) = TroopsOn(projected, to) + m
                    /\ TroopsOn(projected', from) + TroopsOn(projected', to)
                          = TroopsOn(projected, from) + TroopsOn(projected, to)
              /\ from = to => TroopsOn(projected', from) = TroopsOn(projected, from)
              /\ OthersUnchanged
       ]_allvars

\* A move of 60 troops from hex 23, which has 50, to hex 24, which has 30:
\* hex 23 has none and hex 24 has 80.
C32_Witness ==
    /\ projectedCalls = 1
    /\ projectedOrder =
          [order |-> [orderNumber |-> 1, fromHexId |-> 23, toHexId |-> 24,
                      actionType |-> "move", troopCount |-> Some(60)],
           playerUserId |-> Some(CurrentUserId)]
    /\ projected[23].troopCount = 0
    /\ projected[24].troopCount = 80

---------------------------------------------------------------------------
(* Properties of a battle step *)

\* The loser resolveLegacyBattle records for a round with the step's rolls,
\* between alliances whose sizes are the step's bonuses.
RoundLoser ==
    Loser(stepInput.attackerRoll + CalculateLegacyBattleBonus(stepInput.attackerBonus),
          stepInput.defenderRoll + CalculateLegacyBattleBonus(stepInput.defenderBonus))

\* C36  Step and battle agree: for all rolls in 1..6 and all bonuses,
\* resolveLegacyBattleStep returns the side that wins the round (the
\* defender when defenderScore >= attackerScore, the attacker otherwise),
\* which is the side opposite to the loser resolveLegacyBattle records for
\* a round with the same rolls and alliance sizes.
C36_StepAgrees ==
    stepWinner # None =>
        /\ stepWinner.side \in {"attacker", "defender"}
        /\ stepWinner.side = "defender"
              <=> stepInput.defenderRoll + stepInput.defenderBonus
                    >= stepInput.attackerRoll + stepInput.attackerBonus
        /\ stepWinner.side # RoundLoser

\* A tie of scores with different rolls: 3 + 2 against 1 + 4, the defender
\* wins the step.
C36_Witness ==
    /\ stepInput = [attackerRoll |-> 3, defenderRoll |-> 1,
                    attackerBonus |-> 2, defenderBonus |-> 4]
    /\ stepWinner = [side |-> "defender"]

---------------------------------------------------------------------------
(* Properties of battles between alliances *)

\* The results the battle can end with, over the values 1..6 of the die.
Outcomes ==
    BattleOutcomes(StartAttacker, StartDefender,
                   CalculateLegacyBattleBonus(battle.attackerAllianceMembers),
                   CalculateLegacyBattleBonus(battle.defenderAllianceMembers))

\* C37  Alliance dominance: with die values in 1..6 and both sides starting
\* with troops, when the defender's alliance has at least 5 members more than
\* the attacker's, the defender loses no troop and wins; when the attacker's
\* has at least 6 more than the defender's, the attacker loses no troop and
\* wins; for smaller differences either side can win.  A resolved battle
\* has one of these results.
C37_AllianceDominance ==
    (StartAttacker > 0 /\ StartDefender > 0) =>
        LET lead == battle.defenderAllianceMembers - battle.attackerAllianceMembers
        IN  /\ lead >= 5 =>
                  Outcomes = {[attackerWon |-> FALSE, attackerTroops |-> 0,
                               defenderTroops |-> StartDefender]}
            /\ lead <= -6 =>
                  Outcomes = {[attackerWon |-> TRUE, attackerTroops |-> StartAttacker,
                               defenderTroops |-> 0]}
            /\ (lead < 5 /\ lead > -6) => {o.attackerWon : o \in Outcomes} = BOOLEAN
            /\ Resolved =>
                  [attackerWon |-> outcome.winnerNickname = battle.attackerNickname,
                   attackerTroops |-> outcome.attackerTroopsRemaining,
                   defenderTroops |-> outcome.defenderTroopsRemaining] \in Outcomes

\* 2 troops against 2, the defender's alliance of 6 against the attacker's
\* of 1, the attacker rolling 6 and the defender 1 twice: the defender has
\* won with its 2 troops.
C37_Witness ==
    /\ Resolved
    /\ battle.attackerAllianceMembers = 1 /\ battle.defenderAllianceMembers = 6
    /\ StartAttacker = 2 /\ StartDefender = 2
    /\ rolled = <<6, 1, 6, 1>>
    /\ outcome.winnerNickname = "Bob"
    /\ outcome.defenderTroopsRemaining = 2

---------------------------------------------------------------------------
\* The submissions among the page's events, and for a slot the id of the
\* latest of them (0 when there is none).
Submissions == {e \in Members(gameEvents) : IsSubmission(e)}

LastId(slot) ==
    LET ids == {e.id : e \in {s \in Submissions : SubmittedSlot(s) = slot}}
    IN  IF ids = {} THEN 0 ELSE CHOOSE i \in ids : \A o \in ids : o <= i

SubmissionOf(slot) == CHOOSE e \in Submissions : e.id = LastId(slot)

\* C38  No stale later order: an occupied slot holds the order of the
\* latest submission for that slot; whenever slots j < k are both occupied,
\* the order in slot k was submitted after the order now in slot j; and a
\* slot whose latest submission is older than the latest submission for an
\* earlier slot is empty.
C38_NoStaleLaterOrder ==
    /\ \A k \in Slots(issuedOrders) :
        /\ LastId(k) > 0
        /\ OrderAt(issuedOrders, k).toHexId =
              SubmissionOf(k).payload.payload.toHexId.num
    /\ \A j \in Slots(issuedOrders) : \A k \in Slots(issuedOrders) :
          j < k => LastId(j) < LastId(k)
    /\ \A j \in 1..3 : \A k \in 1..3 :
          (j < k /\ LastId(j) > LastId(k)) => k \notin Slots(issuedOrders)

\* Slots 2 and 3 were planned, slot 1 was then rewritten and slot 2
\* submitted again: the queue holds slots 1 and 2, and the old slot 3 is gone.
C38_Witness ==
    /\ Slots(issuedOrders) = {1, 2}
    /\ LastId(3) > 0
    /\ LastId(3) < LastId(1)
    /\ LastId(1) < LastId(2)
    /\ \E e \in Submissions : SubmittedSlot(e) = 2 /\ e.id < LastId(1)

---------------------------------------------------------------------------
\* The arriving event is an order.submit command of another player.
OtherPlayerSubmits ==
    /\ gameEvents' # gameEvents
    /\ Head(gameEvents').event_type = "command.received"
    /\ Head(gameEvents').payload.commandType = Text("order.submit")
    /\ Head(gameEvents').caused_by # Some(CurrentUserId)

\* The queue holds only orders that the current user submitted in the
\* current round, each the latest by event id for its slot, and is empty
\* while the page has no submission of the user for the current round.
QueueOfRound ==
    /\ \A k \in Slots(issuedOrders) :
        /\ LastId(k) > 0
        /\ SubmissionOf(k).caused_by = Some(CurrentUserId)
        /\ SubmissionOf(k).payload.round = Num(currentRound)
        /\ SubmissionOf(k).payload.commandType = Text("order.submit")
        /\ OrderAt(issuedOrders, k).toHexId =
              SubmissionOf(k).payload.payload.toHexId.num
    /\ Submissions = {} => issuedOrders = <<>>

\* C39  Queue is per round and per player: the queue holds only order.submit
\* commands received from the current user in the current round, applied in
\* ascending event id; once the round advances the queue is empty until a
\* submission for the new round arrives; and a submission of another player
\* never changes the queue.
C39_QueuePerRoundAndPlayer ==
    /\ []QueueOfRound
    /\ [][OtherPlayerSubmits => issuedOrders' = issuedOrders]_allvars

===========================================================================
